---- MODULE Spec2Model ----
(***************************************************************************)
(* The habitat_ipc bridge: one channel between a HabitatClient and a       *)
(* HabitatServer over one of the three Transport backends.                 *)
(*                                                                         *)
(*   transport.py       ZmqTransport, ShmRpcTransport, QueueBasedTransport *)
(*   server/server.py   HabitatServer.start (dispatch loop) and handlers   *)
(*   client/client.py   HabitatClient operations and _receive_response     *)
(*                                                                         *)
(* Three further parts share the module: SpecLifecycle (close() on the    *)
(* bridge above), SpecChannels (ZmqTransport objects used directly by two  *)
(* client-server pairs) and SpecCodec (one run of an encoder and the       *)
(* decoder on the other side, also for habitat/ipc_wrapper.py and          *)
(* habitat/ipc_environment.py).                                            *)
(*                                                                         *)
(* The simulation engine (HabitatSim) is opaque: a handler that reaches    *)
(* the engine either returns or raises with some message text.  Elapsed    *)
(* time is abstracted: a call that the source bounds by a timeout may      *)
(* raise whenever it is blocked.                                           *)
(***************************************************************************)
EXTENDS Naturals, Integers, Sequences, FiniteSets, TLC

\* ---------------------------------------------------------------- bounds
MaxOps == 3          \* client calls issued on the channel in one behaviour
MaxCloses == 2       \* Transport.close() calls on one transport object

\* ------------------------------------------------------ program constants
max_retries == 120   \* ZmqTransport.connect: attempts before re-raising

\* ------------------------------------------------------------ vocabulary
Backends == {"zmq", "shm", "queue"}

\* transport objects: the one HabitatServer starts, the one connect()
\* creates (zmq, shm), and the object connect() was called on
Objs == {"srv", "cli", "orig"}

\* RequestMessage.request oneof (server.py dispatch)
ReqKinds == {"init_request", "remove_all_objects_req", "add_object_req",
             "step_req", "reset_req", "close_req"}

\* byte strings that are no HabitatClient request: "ping" does not parse as a
\* RequestMessage, "unset" (the empty string) parses with no oneof member set
RawPayloads == {"ping", "unset"}

\* texts an engine error may carry
EngineMsgs == {"m1", "m2"}

AttributeErrorMsg == "'NoneType' object has no attribute"
DecodeErrorMsg == "Error parsing message"
NotImplementedMsg == "None"
TimeoutMsg == "timeout"

NoResponse == [kind |-> "none", msg |-> "", re |-> 0, over |-> FALSE]

NoIteration ==
    [id |-> 0, kind |-> "none", sim |-> "None", raised |-> FALSE, msg |-> "",
     resp |-> "none"]

NoCall ==
    [id |-> 0, kind |-> "none", status |-> "none", msg |-> "", re |-> 0,
     resp |-> "none"]

VARIABLES
    backend,        \* the Transport class in use on this channel
    socket,         \* ZmqTransport.socket per object: "None" | "Open"
    context,        \* ZmqTransport.context per object: "None" | "Open"
    shm_transport,  \* ShmRpcTransport.shm_transport: "None"|"Open"|"Closed"
    queues,         \* QueueBasedTransport.to_habitat/from_habitat: "Open"|"Closed"
    closeCalls,     \* close() calls made on each object
    closeRaised,    \* some close() call raised
    reqQ,           \* request frames sent and not yet received
    respQ,          \* response frames sent and not yet received
    reqState,       \* REQ socket of the client: "ready" | "awaiting"
    s_pc,           \* HabitatServer: "init"|"recv"|"send"|"crashed"
    _habitat_sim,   \* HabitatServer._habitat_sim: "None"|"Live"|"Closed"
    response_msg,   \* response_msg built by the current loop iteration
    srvLast,        \* history: the latest loop iteration of the server
    srvPrev,        \* history: the loop iteration before that one
    c_pc,           \* HabitatClient: "new"|"connecting"|"idle"|"wait"|"failed"
    c_transport,    \* HabitatClient.transport: "none" | "cli" | "orig"
    attempt,        \* ZmqTransport.connect loop variable
    opCount,        \* client calls issued so far
    cliLast,        \* history: the latest client call and how it ended
    \* -- ZmqTransport objects used directly, two client-server pairs
    channel_name,   \* ZmqTransport.channel_name of each pair's transports
    bound,          \* per ipc path: the pair whose REP socket is bound to it
    pendingReq,     \* per ipc path: requests sent and not yet received
    pendingResp,    \* per client: responses routed to it, not yet received
    t_pc,           \* server thread: "init"|"recv"|"send"|"closed"|"failed"
    k_pc,           \* client: "new"|"idle"|"wait"|"closed"
    replyTo,        \* REP socket: the client whose request is being served
    sentReq,        \* history: payloads each client passed to send_request
    gotReq,         \* history: what each server's receive_request returned
    sentResp,       \* history: payloads each server passed to send_response
    gotResp,        \* history: what each client's receive_response returned
    \* -- one run of a codec function pair
    fn,             \* the function pair under run
    stage,          \* "idle"|"given"|"sent"|"served"|"done"|"raised"
    arg,            \* the in-memory value handed to the encoder
    pb,             \* the protobuf message between encoder and decoder
    ret,            \* what the decoder returned or raised
    \* -- the queue bridge of habitat/ipc_wrapper.py
    request_queue,  \* HabitatIPCWrapper.request_queue: items put, not taken
    response_queue, \* HabitatIPCWrapper.response_queue
    p_pc,           \* habitat_sim_process: "new"|"get"|"exiting"|"dead"
    signal,         \* signal sent to the subprocess: "none"|"term"|"kill"
    w_pc,           \* the calling thread: "idle"|"wait"|"close_wait"|
                    \*   "join5"|"check5"|"join2"|"check2"|"join"
    _ipc_wrapper,   \* HabitatIPCEnvironment._ipc_wrapper: "set"|"None"
    wLast,          \* history: the latest call of the caller, how it ended
                    \*   and the op_type of the item it got
    closeLog,       \* history: the steps HabitatIPCWrapper.close() took
    taken,          \* history: items habitat_sim_process took
    answered,       \* history: items habitat_sim_process put
    wCalls          \* calls made by the caller so far

vars == <<backend, socket, context, shm_transport, queues, closeCalls,
          closeRaised, reqQ, respQ, reqState, s_pc, _habitat_sim,
          response_msg, srvLast, srvPrev, c_pc, c_transport, attempt,
          opCount, cliLast, channel_name, bound, pendingReq, pendingResp,
          t_pc, k_pc, replyTo, sentReq, gotReq, sentResp, gotResp,
          fn, stage, arg, pb, ret, request_queue, response_queue, p_pc,
          signal, w_pc, _ipc_wrapper, wLast, closeLog, taken, answered,
          wCalls>>

bridgeVars == <<backend, socket, context, shm_transport, queues, closeCalls,
                closeRaised, reqQ, respQ, reqState, s_pc, _habitat_sim,
                response_msg, srvLast, srvPrev, c_pc, c_transport, attempt,
                opCount, cliLast>>
chanVars == <<channel_name, bound, pendingReq, pendingResp, t_pc, k_pc,
              replyTo, sentReq, gotReq, sentResp, gotResp>>
codecVars == <<fn, stage, arg, pb, ret>>
wrapVars == <<request_queue, response_queue, p_pc, signal, w_pc,
              _ipc_wrapper, wLast, closeLog, taken, answered, wCalls>>

trVars == <<socket, context, shm_transport, queues, closeCalls, closeRaised>>
srvVars == <<s_pc, _habitat_sim, response_msg, srvLast, srvPrev>>
cliVars == <<c_pc, c_transport, attempt, opCount, cliLast, reqState>>

\* ------------------------------------------------------------------ Init
\* HabitatServer.__init__ (transport stored, _habitat_sim None), transport
\* __init__ (handles None, queues created), HabitatClient not yet built.
InitBridge ==
    /\ backend \in Backends
    /\ socket = [o \in Objs |-> "None"]
    /\ context = [o \in Objs |-> "None"]
    /\ shm_transport = [o \in Objs |-> "None"]
    /\ queues = [o \in Objs |-> "Open"]
    /\ closeCalls = [o \in Objs |-> 0]
    /\ closeRaised = FALSE
    /\ reqQ = <<>>
    /\ respQ = <<>>
    /\ reqState = "ready"
    /\ s_pc = "init"
    /\ _habitat_sim = "None"
    /\ response_msg = NoResponse
    /\ srvLast = NoIteration
    /\ srvPrev = NoIteration
    /\ c_pc = "new"
    /\ c_transport = "none"
    /\ attempt = 0
    /\ opCount = 0
    /\ cliLast = NoCall

\* no test channel in use, no codec run under way
ChannelsIdle ==
    /\ channel_name = <<>>
    /\ bound = <<>>
    /\ pendingReq = <<>>
    /\ pendingResp = <<>>
    /\ t_pc = <<>>
    /\ k_pc = <<>>
    /\ replyTo = <<>>
    /\ sentReq = <<>>
    /\ gotReq = <<>>
    /\ sentResp = <<>>
    /\ gotResp = <<>>

CodecIdle ==
    /\ fn = "none"
    /\ stage = "idle"
    /\ arg = "none"
    /\ pb = "none"
    /\ ret = "none"

\* no HabitatIPCWrapper constructed
NoWrapperCall == [op |-> "none", status |-> "none", msg |-> "", got |-> "none"]

WrapperIdle ==
    /\ request_queue = <<>>
    /\ response_queue = <<>>
    /\ p_pc = "none"
    /\ signal = "none"
    /\ w_pc = "none"
    /\ _ipc_wrapper = "None"
    /\ wLast = NoWrapperCall
    /\ closeLog = <<>>
    /\ taken = 0
    /\ answered = 0
    /\ wCalls = 0

Init == InitBridge /\ ChannelsIdle /\ CodecIdle /\ WrapperIdle

\* ------------------------------------------------------ server: handlers
\* A handler outcome: the response it returns or the error it raises, and
\* the value of self._habitat_sim it leaves behind.
Returns(kind, sim, over) ==
    [resp |-> kind, msg |-> "", sim |-> sim, over |-> over, raised |-> FALSE]

Raises(m, sim) ==
    [resp |-> "error_resp", msg |-> m, sim |-> sim, over |-> FALSE,
     raised |-> TRUE]

\* _init: building the agent or HabitatSim may raise before the assignment
\* to self._habitat_sim; pickle.loads / add_object may raise after it.
_init(sim) ==
    {Raises(m, sim) : m \in EngineMsgs}
      \cup {Raises(m, "Live") : m \in EngineMsgs}
      \cup {Returns("init_resp", "Live", FALSE)}

_remove_all_objects(sim) ==
    IF sim = "None" THEN {Raises(AttributeErrorMsg, sim)}
    ELSE {Raises(m, sim) : m \in EngineMsgs}
           \cup {Returns("remove_all_objects_resp", sim, FALSE)}

_add_objects(sim) ==
    IF sim = "None" THEN {Raises(AttributeErrorMsg, sim)}
    ELSE {Raises(m, sim) : m \in EngineMsgs}
           \cup {Returns("add_object_resp", sim, FALSE)}

\* step and reset responses carry the observation tensors: any size
_step(sim) ==
    IF sim = "None" THEN {Raises(AttributeErrorMsg, sim)}
    ELSE {Raises(m, sim) : m \in EngineMsgs}
           \cup {Returns("step_resp", sim, ov) : ov \in BOOLEAN}

\* _reset wrapping its ResetResponse in the step_resp field
_reset_answers_step(sim) ==
    IF sim = "None" THEN {Raises(AttributeErrorMsg, sim)}
    ELSE {Raises(m, sim) : m \in EngineMsgs}
           \cup {Returns("step_resp", sim, ov) : ov \in BOOLEAN}

_reset(sim) ==
    IF sim = "None" THEN {Raises(AttributeErrorMsg, sim)}
    ELSE {Raises(m, sim) : m \in EngineMsgs}
           \cup {Returns("reset_resp", sim, ov) : ov \in BOOLEAN}

\* _close guarded by "if self._habitat_sim is not None"
_close_skips_missing_engine(sim) ==
    IF sim = "None" THEN {Returns("close_resp", sim, FALSE)}
    ELSE {Raises(m, sim) : m \in EngineMsgs}
           \cup {Returns("close_resp", "Closed", FALSE)}

\* _close closes the engine and keeps the reference to it
_close(sim) ==
    IF sim = "None" THEN {Raises(AttributeErrorMsg, sim)}
    ELSE {Raises(m, sim) : m \in EngineMsgs}
           \cup {Returns("close_resp", "Closed", FALSE)}

\* the try block of start(): ParseFromString, WhichOneof, the if/elif chain
Dispatch(payload, sim) ==
    CASE payload = "ping" -> {Raises(DecodeErrorMsg, sim)}
      [] payload = "init_request" -> _init(sim)
      [] payload = "remove_all_objects_req" -> _remove_all_objects(sim)
      [] payload = "add_object_req" -> _add_objects(sim)
      [] payload = "step_req" -> _step(sim)
      [] payload = "reset_req" -> _reset(sim)
      [] payload = "close_req" -> _close(sim)
      [] OTHER -> {Raises(NotImplementedMsg, sim)}

\* ------------------------------------------------- transport: lifecycle
\* ZmqTransport.start: context, REP socket, bind
ZmqTransport_start(o) ==
    /\ socket' = [socket EXCEPT ![o] = "Open"]
    /\ context' = [context EXCEPT ![o] = "Open"]
    /\ UNCHANGED <<shm_transport, queues>>

\* ShmRpcTransport.start: SharedMemoryTransport.create
ShmRpcTransport_start(o) ==
    /\ shm_transport' = [shm_transport EXCEPT ![o] = "Open"]
    /\ UNCHANGED <<socket, context, queues>>

\* QueueBasedTransport.start: pass
QueueBasedTransport_start(o) ==
    UNCHANGED <<socket, context, shm_transport, queues>>

Transport_start(o) ==
    CASE backend = "zmq" -> ZmqTransport_start(o)
      [] backend = "shm" -> ShmRpcTransport_start(o)
      [] OTHER -> QueueBasedTransport_start(o)

\* ZmqTransport.close: each handle is closed and cleared if it is set
ZmqTransport_close(o) ==
    /\ socket' = [socket EXCEPT ![o] = "None"]
    /\ context' = [context EXCEPT ![o] = "None"]
    /\ UNCHANGED <<shm_transport, queues, closeRaised>>

\* ShmRpcTransport.close: the handle, if set, is closed and kept; a later
\* call closes the same handle again, and what the closed handle then does
\* is not fixed by the source
ShmRpcTransport_close(o) ==
    /\ shm_transport' = [shm_transport EXCEPT
                           ![o] = IF @ = "None" THEN "None" ELSE "Closed"]
    /\ IF shm_transport[o] = "Closed"
         THEN closeRaised' \in {closeRaised, TRUE}
         ELSE closeRaised' = closeRaised
    /\ UNCHANGED <<socket, context, queues>>

\* QueueBasedTransport.close: Queue.close() on both queues, every time
QueueBasedTransport_close(o) ==
    /\ queues' = [queues EXCEPT ![o] = "Closed"]
    /\ UNCHANGED <<socket, context, shm_transport, closeRaised>>

Transport_close(o) ==
    CASE backend = "zmq" -> ZmqTransport_close(o)
      [] backend = "shm" -> ShmRpcTransport_close(o)
      [] OTHER -> QueueBasedTransport_close(o)

\* the object can carry messages
IsOpen(o) ==
    CASE backend = "zmq" -> socket[o] = "Open"
      [] backend = "shm" -> shm_transport[o] = "Open"
      [] OTHER -> queues[o] = "Open"

\* -------------------------------------------------- transport: messages
\* ShmRpcTransport hands _buffer_size to the shared-memory channel, which
\* refuses a longer payload; "over" is len(data) > _buffer_size.  The other
\* two backends set no limit.
SendRejected(frame) == backend = "shm" /\ frame.over

\* the shared-memory channel holds one message per direction; a sender
\* waits (up to _timeout) for the previous one to be taken
SendBlocked(q) == backend = "shm" /\ Len(q) >= 1

\* a receive with nothing to take raises after the timeout: _timeout on
\* both sides of ShmRpcTransport, RCVTIMEO on the socket connect() builds
\* (start() sets none); Queue.get() waits without limit
ServerReceiveTimesOut == backend = "shm"
ClientReceiveTimesOut == backend \in {"zmq", "shm"}

\* ------------------------------------------------------ server: the loop
\* the except clause left out: the error leaves start()
ExceptException_propagates(m, id) ==
    /\ response_msg' = response_msg
    /\ s_pc' = "crashed"

\* the except clause running start() from its first statement again
ExceptException_restarts(m, id) ==
    /\ response_msg' = response_msg
    /\ s_pc' = "init"

\* except Exception as e: the Error response with str(e)
ExceptException(m, id) ==
    /\ response_msg' = [kind |-> "error_resp", msg |-> m, re |-> id,
                        over |-> FALSE]
    /\ s_pc' = "send"

LogEntry(id, kind, out) ==
    [id |-> id, kind |-> kind, sim |-> _habitat_sim, raised |-> out.raised,
     msg |-> out.msg, resp |-> out.resp]

\* HabitatServer.start up to the loop: self.transport.start()
ServerStart ==
    /\ s_pc = "init"
    /\ Transport_start("srv")
    /\ s_pc' = "recv"
    /\ UNCHANGED <<chanVars, codecVars, wrapVars>>
    /\ UNCHANGED <<backend, closeCalls, closeRaised, reqQ, respQ,
                   _habitat_sim, response_msg, srvLast, srvPrev>>
    /\ UNCHANGED cliVars

\* one pass through the try block with a request received
ServerDispatch ==
    /\ s_pc = "recv"
    /\ reqQ # <<>>
    /\ LET req == Head(reqQ) IN
         \E out \in Dispatch(req.kind, _habitat_sim) :
            /\ reqQ' = Tail(reqQ)
            /\ _habitat_sim' = out.sim
            /\ IF out.raised
                 THEN ExceptException(out.msg, req.id)
                 ELSE /\ response_msg' = [kind |-> out.resp, msg |-> "",
                                          re |-> req.id, over |-> out.over]
                      /\ s_pc' = "send"
            /\ srvLast' = LogEntry(req.id, req.kind, out)
            /\ srvPrev' = srvLast
    /\ UNCHANGED <<chanVars, codecVars, wrapVars>>
    /\ UNCHANGED <<backend, respQ>>
    /\ UNCHANGED trVars
    /\ UNCHANGED cliVars

\* receive_request itself raises inside the try block
ServerReceiveRaises ==
    /\ s_pc = "recv"
    /\ reqQ = <<>>
    /\ ServerReceiveTimesOut
    /\ ExceptException(TimeoutMsg, 0)
    /\ srvLast' = LogEntry(0, "none", Raises(TimeoutMsg, _habitat_sim))
    /\ srvPrev' = srvLast
    /\ UNCHANGED <<chanVars, codecVars, wrapVars>>
    /\ UNCHANGED <<backend, reqQ, respQ, _habitat_sim>>
    /\ UNCHANGED trVars
    /\ UNCHANGED cliVars

\* self.transport.send_response(response_msg.SerializeToString())
ServerSend ==
    /\ s_pc = "send"
    /\ ~SendRejected(response_msg)
    /\ ~SendBlocked(respQ)
    /\ respQ' = Append(respQ, response_msg)
    /\ s_pc' = "recv"
    /\ UNCHANGED <<chanVars, codecVars, wrapVars>>
    /\ UNCHANGED <<backend, reqQ, _habitat_sim, response_msg, srvLast,
                   srvPrev>>
    /\ UNCHANGED trVars
    /\ UNCHANGED cliVars

\* send_response raises: outside the try block, start() is left
ServerSendRaises ==
    /\ s_pc = "send"
    /\ SendRejected(response_msg) \/ SendBlocked(respQ)
    /\ s_pc' = "crashed"
    /\ UNCHANGED <<chanVars, codecVars, wrapVars>>
    /\ UNCHANGED <<backend, reqQ, respQ, _habitat_sim, response_msg,
                   srvLast, srvPrev>>
    /\ UNCHANGED trVars
    /\ UNCHANGED cliVars

\* ------------------------------------------------------ client: connect
\* HabitatClient.__init__: self.transport = transport.connect()
\* the object whose handles connect() assigns when it is called on `self`:
\* `transport = ZmqTransport(self._channel_name)`, likewise
\* `transport = ShmRpcTransport(self._name)`, a new object
connect_transport_is_self(self) == self

connect_transport(self) == "cli"

\* ZmqTransport.connect, one pass of the retry loop in which socket.connect
\* returns: the new transport is returned.  Nothing in the pass looks at
\* the server side.
ZmqConnectReturns ==
    /\ backend = "zmq"
    /\ c_pc \in {"new", "connecting"}
    /\ socket' = [socket EXCEPT ![connect_transport("orig")] = "Open"]
    /\ context' = [context EXCEPT ![connect_transport("orig")] = "Open"]
    /\ c_transport' = connect_transport("orig")
    /\ c_pc' = "idle"
    /\ UNCHANGED <<chanVars, codecVars, wrapVars>>
    /\ UNCHANGED <<backend, shm_transport, queues, closeCalls, closeRaised,
                   reqQ, respQ, reqState, attempt, opCount, cliLast>>
    /\ UNCHANGED srvVars

\* one pass in which socket.connect raises zmq.ZMQError: sleep and retry,
\* or re-raise on the last attempt
ZmqConnectRaises ==
    /\ backend = "zmq"
    /\ c_pc \in {"new", "connecting"}
    /\ IF attempt < max_retries - 1
         THEN /\ attempt' = attempt + 1
              /\ c_pc' = "connecting"
         ELSE /\ attempt' = attempt
              /\ c_pc' = "failed"
    /\ UNCHANGED <<chanVars, codecVars, wrapVars>>
    /\ UNCHANGED <<backend, reqQ, respQ, reqState, c_transport, opCount,
                   cliLast>>
    /\ UNCHANGED trVars
    /\ UNCHANGED srvVars

\* ShmRpcTransport.connect: SharedMemoryTransport.open returns once the
\* segment created by start() exists
ShmConnectReturns ==
    /\ backend = "shm"
    /\ c_pc = "new"
    /\ shm_transport["srv"] # "None"
    /\ shm_transport' =
           [shm_transport EXCEPT ![connect_transport("orig")] = "Open"]
    /\ c_transport' = connect_transport("orig")
    /\ c_pc' = "idle"
    /\ UNCHANGED <<chanVars, codecVars, wrapVars>>
    /\ UNCHANGED <<backend, socket, context, queues, closeCalls, closeRaised,
                   reqQ, respQ, reqState, attempt, opCount, cliLast>>
    /\ UNCHANGED srvVars

\* ... and raises when wait_for_creation runs out first
ShmConnectRaises ==
    /\ backend = "shm"
    /\ c_pc = "new"
    /\ shm_transport["srv"] = "None"
    /\ c_pc' = "failed"
    /\ UNCHANGED <<chanVars, codecVars, wrapVars>>
    /\ UNCHANGED <<backend, reqQ, respQ, reqState, c_transport, attempt,
                   opCount, cliLast>>
    /\ UNCHANGED trVars
    /\ UNCHANGED srvVars

\* QueueBasedTransport.connect: return self
QueueConnectReturns ==
    /\ backend = "queue"
    /\ c_pc = "new"
    /\ c_transport' = "orig"
    /\ c_pc' = "idle"
    /\ UNCHANGED <<chanVars, codecVars, wrapVars>>
    /\ UNCHANGED <<backend, reqQ, respQ, reqState, attempt, opCount, cliLast>>
    /\ UNCHANGED trVars
    /\ UNCHANGED srvVars

\* -------------------------------------------------------- client: calls
\* the payloads a client call may put on the channel: the six HabitatClient
\* operations, and the raw byte strings a peer can hand to send_request
CallKinds == ReqKinds \cup RawPayloads

\* only init carries a payload of arbitrary length (the pickled object list)
MayBeOver(k) == IF k = "init_request" THEN BOOLEAN ELSE {FALSE}

Frame(k, ov) == [kind |-> k, id |-> opCount + 1, over |-> ov]

CallEntry(k, status) ==
    [id |-> opCount + 1, kind |-> k, status |-> status, msg |-> "",
     re |-> 0, resp |-> "none"]

\* the send half of init/add_object/remove_all_objects/step/reset/close:
\* self.transport.send_request(request_msg.SerializeToString())
ClientSend(k, ov) ==
    /\ c_pc = "idle"
    /\ opCount < MaxOps
    /\ IsOpen(c_transport)
    /\ ~(backend = "zmq" /\ reqState = "awaiting")
    /\ ~SendRejected(Frame(k, ov))
    /\ ~SendBlocked(reqQ)
    /\ reqQ' = Append(reqQ, Frame(k, ov))
    /\ reqState' = IF backend = "zmq" THEN "awaiting" ELSE reqState
    /\ c_pc' = "wait"
    /\ opCount' = opCount + 1
    /\ cliLast' = CallEntry(k, "pending")
    /\ UNCHANGED <<chanVars, codecVars, wrapVars>>
    /\ UNCHANGED <<backend, respQ, c_transport, attempt>>
    /\ UNCHANGED trVars
    /\ UNCHANGED srvVars

\* send_request raises and the call ends before anything is transmitted:
\* RuntimeError on a cleared socket, the REQ socket refusing a second send
\* before a receive, an oversize or timed-out shared-memory send, a closed
\* queue
ClientSendRaises(k, ov) ==
    /\ c_pc = "idle"
    /\ opCount < MaxOps
    /\ \/ ~IsOpen(c_transport)
       \/ backend = "zmq" /\ reqState = "awaiting"
       \/ SendRejected(Frame(k, ov))
       \/ SendBlocked(reqQ)
    /\ opCount' = opCount + 1
    /\ cliLast' = CallEntry(k, "send_raised")
    /\ UNCHANGED <<chanVars, codecVars, wrapVars>>
    /\ UNCHANGED <<backend, reqQ, respQ, reqState, c_pc, c_transport, attempt>>
    /\ UNCHANGED trVars
    /\ UNCHANGED srvVars

\* _receive_response: receive, parse, raise Exception(error_resp.msg) for
\* the Error variant, return the message otherwise
ClientReceive ==
    /\ c_pc = "wait"
    /\ respQ # <<>>
    /\ LET r == Head(respQ) IN
         cliLast' = [cliLast EXCEPT !.status = IF r.kind = "error_resp"
                                                 THEN "error" ELSE "ok",
                                    !.msg = r.msg,
                                    !.re = r.re,
                                    !.resp = r.kind]
    /\ respQ' = Tail(respQ)
    /\ reqState' = "ready"
    /\ c_pc' = "idle"
    /\ UNCHANGED <<chanVars, codecVars, wrapVars>>
    /\ UNCHANGED <<backend, reqQ, c_transport, attempt, opCount>>
    /\ UNCHANGED trVars
    /\ UNCHANGED srvVars

\* receive_response raises after the timeout; the call ends
ClientReceiveRaises ==
    /\ c_pc = "wait"
    /\ respQ = <<>>
    /\ ClientReceiveTimesOut
    /\ cliLast' = [cliLast EXCEPT !.status = "recv_raised"]
    /\ c_pc' = "idle"
    /\ UNCHANGED <<chanVars, codecVars, wrapVars>>
    /\ UNCHANGED <<backend, reqQ, respQ, reqState, c_transport, attempt,
                   opCount>>
    /\ UNCHANGED trVars
    /\ UNCHANGED srvVars

\* ------------------------------------------------------------- close()
\* Transport.close() by the owner of the object: __del__ of the
\* HabitatServer / HabitatClient that holds it, or a direct call
CanClose(o) ==
    CASE o = "srv" -> s_pc # "send"
      [] o = c_transport -> c_pc = "idle"
      [] o = "orig" -> TRUE
      [] OTHER -> FALSE

CloseTransport(o) ==
    /\ CanClose(o)
    /\ closeCalls[o] < MaxCloses
    /\ closeCalls' = [closeCalls EXCEPT ![o] = @ + 1]
    /\ Transport_close(o)
    /\ UNCHANGED <<chanVars, codecVars, wrapVars>>
    /\ UNCHANGED <<backend, reqQ, respQ>>
    /\ UNCHANGED srvVars
    /\ UNCHANGED cliVars

\* ------------------------------------------------------------------ Next
Next ==
    \/ ServerStart
    \/ ServerDispatch
    \/ ServerReceiveRaises
    \/ ServerSend
    \/ ServerSendRaises
    \/ ZmqConnectReturns
    \/ ZmqConnectRaises
    \/ ShmConnectReturns
    \/ ShmConnectRaises
    \/ QueueConnectReturns
    \/ \E k \in CallKinds : \E ov \in MayBeOver(k) : ClientSend(k, ov)
    \/ \E k \in CallKinds : \E ov \in MayBeOver(k) : ClientSendRaises(k, ov)
    \/ ClientReceive
    \/ ClientReceiveRaises

Spec == Init /\ [][Next]_vars

\* the lifecycle of the transport objects alone: start, connect, close
NextLifecycle ==
    \/ ServerStart
    \/ ZmqConnectReturns
    \/ ZmqConnectRaises
    \/ ShmConnectReturns
    \/ ShmConnectRaises
    \/ QueueConnectReturns
    \/ \E o \in Objs : CloseTransport(o)

SpecLifecycle == Init /\ [][NextLifecycle]_vars

TypeOK ==
    /\ backend \in Backends
    /\ s_pc \in {"init", "recv", "send", "crashed"}
    /\ c_pc \in {"new", "connecting", "idle", "wait", "failed"}
    /\ _habitat_sim \in {"None", "Live", "Closed"}
    /\ cliLast.id = opCount
    /\ opCount <= MaxOps

\* ================================================================ claims
InFlight ==
    Len(reqQ)
      + (IF s_pc = "send" /\ response_msg.re # 0 THEN 1 ELSE 0)
      + Cardinality({i \in 1..Len(respQ) : respQ[i].re # 0})

\* C1: strict alternation.  Every completed client call received the
\* response to the request it sent, the server sends a response only for a
\* request it received, and at most one request is in flight.
C1_StrictAlternation ==
    /\ cliLast.status \in {"ok", "error"} => cliLast.re = cliLast.id
    /\ s_pc = "send" => response_msg.re # 0
    /\ \A i \in 1..Len(respQ) : respQ[i].re # 0
    /\ InFlight <= 1

\* C2: once a Close request has been answered with CloseResponse the
\* dispatch loop has ended: the server is not back in receive_request and
\* no later loop iteration follows the one that handled Close.
C2_CloseTerminatesLoop ==
    /\ srvLast.resp = "close_resp" => s_pc # "recv"
    /\ srvPrev.resp # "close_resp"

\* C3: when the handler of a request raises, the loop iteration ends with
\* the Error response carrying the error's message for that request, and a
\* pending Error response the transport accepts is sent with the server
\* back in receive_request.
C3_HandlerErrorAnswered ==
    [][/\ (s_pc = "recv" /\ s_pc' # "recv" /\ srvLast'.kind \in ReqKinds
             /\ srvLast'.raised)
          => /\ s_pc' = "send"
             /\ response_msg' = [kind |-> "error_resp", msg |-> srvLast'.msg,
                                 re |-> srvLast'.id, over |-> FALSE]
       /\ (s_pc = "send" /\ response_msg.kind = "error_resp"
             /\ ~SendBlocked(respQ))
          => (s_pc' = "send" \/ (s_pc' = "recv"
                                   /\ respQ' = Append(respQ, response_msg)))
      ]_vars

\* C3 witness: a request whose handler raised an engine error was answered,
\* and the next request was received and answered normally.
C3_Witness ==
    /\ srvPrev.kind \in ReqKinds
    /\ srvPrev.raised
    /\ srvPrev.msg \in EngineMsgs
    /\ srvLast.kind \in ReqKinds
    /\ ~srvLast.raised
    /\ s_pc = "recv"
    /\ cliLast.status = "ok"
    /\ cliLast.re = srvLast.id

\* C4: when the handler of the request of the latest completed client call
\* raised with message m, that call raised an error with message exactly m.
C4_ErrorReachesCaller ==
    (cliLast.status \in {"ok", "error"} /\ srvLast.id = cliLast.id
       /\ srvLast.raised)
      => (cliLast.status = "error" /\ cliLast.msg = srvLast.msg)

\* C5: a failure of receive_request, or of decoding the received bytes, is
\* not answered: the loop has stopped and no Error response was built.
C5_FatalNotAnswered ==
    (srvLast.raised /\ srvLast.kind \in {"none", "ping"})
      => (s_pc = "crashed" /\ response_msg.kind # "error_resp")

\* C6: while _habitat_sim is None, a request other than Init ends its loop
\* iteration with an Error response for that request, the loop still
\* running, and _habitat_sim still None.
C6_UninitializedAnswersError ==
    [][(s_pc = "recv" /\ reqQ # <<>> /\ _habitat_sim = "None"
          /\ Head(reqQ).kind \in ReqKinds \ {"init_request"}
          /\ s_pc' # "recv")
       => /\ s_pc' = "send"
          /\ response_msg'.kind = "error_resp"
          /\ response_msg'.re = Head(reqQ).id
          /\ _habitat_sim' = "None"
      ]_vars

\* C6 witness: a request other than Init, handled with no engine, has been
\* answered with an Error the client received, and the server is receiving.
C6_Witness ==
    /\ srvLast.kind \in ReqKinds \ {"init_request"}
    /\ srvLast.sim = "None"
    /\ _habitat_sim = "None"
    /\ s_pc = "recv"
    /\ cliLast.status = "error"
    /\ cliLast.re = srvLast.id
    /\ cliLast.msg = AttributeErrorMsg

C8_ConnectedOnlyIfStarted ==
    (backend \in {"zmq", "shm"} /\ c_pc \in {"idle", "wait"})
      => s_pc # "init"

\* C9: on the socket backend a ping sent in place of a request is answered
\* by the transport and never handed to the dispatcher.
C9_PingNeverDispatched ==
    backend = "zmq" => (srvLast.kind # "ping" /\ srvPrev.kind # "ping")

\* C10: on the shared-memory and the socket backend no frame longer than
\* the configured maximum becomes visible to the peer.
C10_OversizeNeverVisible ==
    backend \in {"shm", "zmq"}
      => /\ \A i \in 1..Len(reqQ) : ~reqQ[i].over
         /\ \A i \in 1..Len(respQ) : ~respQ[i].over

\* C11: no transport call blocks forever.  A receive that finds nothing to
\* receive is blocked; the claim holds when every blocked call, on every
\* backend and on both sides, can end by raising after its timeout.
C11_BlockedCallTimesOut ==
    /\ (s_pc = "recv" /\ reqQ = <<>>) => ENABLED ServerReceiveRaises
    /\ (c_pc = "wait" /\ respQ = <<>>) => ENABLED ClientReceiveRaises

\* ======================================================================
\* ZmqTransport used directly: two client-server pairs, each pair on the
\* channel its two ZmqTransport objects were constructed with
\* (tests/unit/habitat_ipc_transport_test.py).
\* ======================================================================
MaxCycles == 2       \* request/response cycles one client runs

Pairs == {1, 2}

\* cycles the client and the server thread of a pair run: the second pair
\* runs the single cycle of test_zmq_transport_multiple_independent_channels
Cycles(p) == IF p = 1 THEN MaxCycles ELSE 1

ChannelNames == {"test_a", "test_b"}
Payloads == {"x", "y"}

\* ZmqTransport.__init__:
\*   self._ipc_path = f"ipc:///tmp/habitat_ipc_{channel_name}.sock"
_ipc_path_ignores_name(name) == <<"ipc:///tmp/habitat_ipc_", "", ".sock">>

_ipc_path(name) == <<"ipc:///tmp/habitat_ipc_", name, ".sock">>

IpcPaths == {_ipc_path(n) : n \in ChannelNames}

PathOf(p) == _ipc_path(channel_name[p])

\* socket.send(data) / socket.recv(): the bytes are queued as they are and
\* handed over oldest first
zmq_send_reencoded(q, sender, data) ==
    Append(q, [from |-> sender, data |-> "x"])

zmq_send(q, sender, data) == Append(q, [from |-> sender, data |-> data])

zmq_recv(q) == Head(q)

\* the two transports of each pair constructed, nothing started
InitChannels ==
    /\ InitBridge
    /\ backend = "zmq"
    /\ CodecIdle
    /\ WrapperIdle
    /\ channel_name \in {f \in [Pairs -> ChannelNames] : f[1] = "test_a"}
    /\ bound = [a \in IpcPaths |-> 0]
    /\ pendingReq = [a \in IpcPaths |-> <<>>]
    /\ pendingResp = [p \in Pairs |-> <<>>]
    /\ t_pc = [p \in Pairs |-> "init"]
    /\ k_pc = [p \in Pairs |-> "new"]
    /\ replyTo = [p \in Pairs |-> 0]
    /\ sentReq = [p \in Pairs |-> <<>>]
    /\ gotReq = [p \in Pairs |-> <<>>]
    /\ sentResp = [p \in Pairs |-> <<>>]
    /\ gotResp = [p \in Pairs |-> <<>>]

\* ZmqTransport.start: socket.bind(self._ipc_path).  Binding a path another
\* REP socket holds either raises or takes the path over.
ChanStart(p) ==
    /\ t_pc[p] = "init"
    /\ \/ /\ bound' = [bound EXCEPT ![PathOf(p)] = p]
          /\ t_pc' = [t_pc EXCEPT ![p] = "recv"]
       \/ /\ bound[PathOf(p)] # 0
          /\ t_pc' = [t_pc EXCEPT ![p] = "failed"]
          /\ UNCHANGED bound
    /\ UNCHANGED <<channel_name, pendingReq, pendingResp, k_pc, replyTo,
                   sentReq, gotReq, sentResp, gotResp>>
    /\ UNCHANGED <<bridgeVars, codecVars, wrapVars>>

\* ZmqTransport.connect: socket.connect(self._ipc_path) returns
ChanConnect(p) ==
    /\ k_pc[p] = "new"
    /\ k_pc' = [k_pc EXCEPT ![p] = "idle"]
    /\ UNCHANGED <<channel_name, bound, pendingReq, pendingResp, t_pc,
                   replyTo, sentReq, gotReq, sentResp, gotResp>>
    /\ UNCHANGED <<bridgeVars, codecVars, wrapVars>>

\* ZmqTransport.send_request(data) on the client's REQ socket
ChanSendRequest(p, d) ==
    /\ k_pc[p] = "idle"
    /\ Len(sentReq[p]) < Cycles(p)
    /\ pendingReq' = [pendingReq EXCEPT
                        ![PathOf(p)] = zmq_send(@, p, d)]
    /\ sentReq' = [sentReq EXCEPT ![p] = Append(@, d)]
    /\ k_pc' = [k_pc EXCEPT ![p] = "wait"]
    /\ UNCHANGED <<channel_name, bound, pendingResp, t_pc, replyTo, gotReq,
                   sentResp, gotResp>>
    /\ UNCHANGED <<bridgeVars, codecVars, wrapVars>>

\* ZmqTransport.receive_request() on the REP socket that holds the path
ChanReceiveRequest(p) ==
    /\ t_pc[p] = "recv"
    /\ bound[PathOf(p)] = p
    /\ pendingReq[PathOf(p)] # <<>>
    /\ LET frame == zmq_recv(pendingReq[PathOf(p)]) IN
         /\ gotReq' = [gotReq EXCEPT ![p] = Append(@, frame)]
         /\ replyTo' = [replyTo EXCEPT ![p] = frame.from]
    /\ pendingReq' = [pendingReq EXCEPT ![PathOf(p)] = Tail(@)]
    /\ t_pc' = [t_pc EXCEPT ![p] = "send"]
    /\ UNCHANGED <<channel_name, bound, pendingResp, k_pc, sentReq, sentResp,
                   gotResp>>
    /\ UNCHANGED <<bridgeVars, codecVars, wrapVars>>

\* ZmqTransport.send_response(data): the REP socket answers the client
\* whose request it received last
ChanSendResponse(p, d) ==
    /\ t_pc[p] = "send"
    /\ pendingResp' = [pendingResp EXCEPT
                         ![replyTo[p]] = zmq_send(@, p, d)]
    /\ sentResp' = [sentResp EXCEPT ![p] = Append(@, d)]
    /\ t_pc' = [t_pc EXCEPT ![p] = "recv"]
    /\ UNCHANGED <<channel_name, bound, pendingReq, k_pc, replyTo, sentReq,
                   gotReq, gotResp>>
    /\ UNCHANGED <<bridgeVars, codecVars, wrapVars>>

\* ZmqTransport.receive_response() on the client's REQ socket
ChanReceiveResponse(p) ==
    /\ k_pc[p] = "wait"
    /\ pendingResp[p] # <<>>
    /\ gotResp' = [gotResp EXCEPT ![p] = Append(@, zmq_recv(pendingResp[p]))]
    /\ pendingResp' = [pendingResp EXCEPT ![p] = Tail(@)]
    /\ k_pc' = [k_pc EXCEPT ![p] = "idle"]
    /\ UNCHANGED <<channel_name, bound, pendingReq, t_pc, replyTo, sentReq,
                   gotReq, sentResp>>
    /\ UNCHANGED <<bridgeVars, codecVars, wrapVars>>

\* receive_response raises after RCVTIMEO; the caller's finally block
\* closes the client transport
ChanReceiveResponseRaises(p) ==
    /\ k_pc[p] = "wait"
    /\ pendingResp[p] = <<>>
    /\ k_pc' = [k_pc EXCEPT ![p] = "closed"]
    /\ UNCHANGED <<channel_name, bound, pendingReq, pendingResp, t_pc,
                   replyTo, sentReq, gotReq, sentResp, gotResp>>
    /\ UNCHANGED <<bridgeVars, codecVars, wrapVars>>

\* ZmqTransport.close() by the client once its cycles are done
ChanClientClose(p) ==
    /\ k_pc[p] = "idle"
    /\ Len(sentReq[p]) = Cycles(p)
    /\ k_pc' = [k_pc EXCEPT ![p] = "closed"]
    /\ UNCHANGED <<channel_name, bound, pendingReq, pendingResp, t_pc,
                   replyTo, sentReq, gotReq, sentResp, gotResp>>
    /\ UNCHANGED <<bridgeVars, codecVars, wrapVars>>

\* ZmqTransport.close() by the server thread once it has served its cycles
ChanServerClose(p) ==
    /\ t_pc[p] = "recv"
    /\ Len(sentResp[p]) = Cycles(p)
    /\ t_pc' = [t_pc EXCEPT ![p] = "closed"]
    /\ bound' = [bound EXCEPT ![PathOf(p)] = IF @ = p THEN 0 ELSE @]
    /\ UNCHANGED <<channel_name, pendingReq, pendingResp, k_pc, replyTo,
                   sentReq, gotReq, sentResp, gotResp>>
    /\ UNCHANGED <<bridgeVars, codecVars, wrapVars>>

NextChannels ==
    \/ \E p \in Pairs : ChanStart(p)
    \/ \E p \in Pairs : ChanConnect(p)
    \/ \E p \in Pairs, d \in Payloads : ChanSendRequest(p, d)
    \/ \E p \in Pairs : ChanReceiveRequest(p)
    \/ \E p \in Pairs, d \in Payloads : ChanSendResponse(p, d)
    \/ \E p \in Pairs : ChanReceiveResponse(p)
    \/ \E p \in Pairs : ChanReceiveResponseRaises(p)
    \/ \E p \in Pairs : ChanClientClose(p)
    \/ \E p \in Pairs : ChanServerClose(p)

SpecChannels == InitChannels /\ [][NextChannels]_vars

\* the pair's channel is used by that pair alone
OwnChannel(p) == \A q \in Pairs \ {p} : channel_name[q] # channel_name[p]

\* C12: on one ZmqTransport channel the i-th receive_request returns the
\* bytes of the i-th send_request and the i-th receive_response returns the
\* bytes of the i-th send_response.
C12_PayloadsInOrder ==
    \A p \in Pairs :
        OwnChannel(p) =>
            /\ Len(gotReq[p]) <= Len(sentReq[p])
            /\ \A i \in 1..Len(gotReq[p]) : gotReq[p][i].data = sentReq[p][i]
            /\ Len(gotResp[p]) <= Len(sentResp[p])
            /\ \A i \in 1..Len(gotResp[p]) :
                  gotResp[p][i].data = sentResp[p][i]

\* two full cycles with different request and different response payloads
C12_Witness ==
    /\ OwnChannel(1)
    /\ sentReq[1] = <<"x", "y">>
    /\ sentResp[1] = <<"y", "x">>
    /\ Len(gotReq[1]) = 2
    /\ Len(gotResp[1]) = 2

\* C13: with distinct channel names, a request is received only by the
\* server of the channel it was sent on and a client receives only the
\* responses of its own server.
C13_ChannelsIndependent ==
    (\A p \in Pairs : OwnChannel(p)) =>
        \A p \in Pairs :
            /\ \A i \in 1..Len(gotReq[p]) : gotReq[p][i].from = p
            /\ \A i \in 1..Len(gotResp[p]) : gotResp[p][i].from = p

\* both pairs have completed a cycle while the other was under way
C13_Witness ==
    /\ \A p \in Pairs : OwnChannel(p)
    /\ \A p \in Pairs : Len(gotResp[p]) >= 1
    /\ Len(sentReq[1]) = 2

\* ======================================================================
\* The codec: in-memory values <-> protobuf messages.  A run hands one
\* value to an encoder and the message it builds to the decoder on the
\* other side.  Numbers stand for values the wire field represents exactly.
\* ======================================================================
MaxActions == 2      \* actions in the sequence handed to step()

AgentIds == {"agent_id_0"}
Nums == {0, 1}
Vec3s == {<<0, 1, 2>>, <<2, 0, 1>>}
Quats == {<<1, 0, 0, 0>>, <<0, 1, 2, 3>>}

\* tbp.monty.frameworks.actions.actions, as imported by server.py
ActionKinds ==
    {"LookDown", "LookUp", "MoveForward", "MoveTangentially",
     "OrientHorizontal", "OrientVertical", "SetAgentPitch", "SetAgentPose",
     "SetSensorPitch", "SetSensorPose", "SetSensorRotation", "SetYaw",
     "TurnLeft", "TurnRight"}

\* the in-memory actions: one record set per Action subclass, and an Action
\* subclass that is none of the fourteen
Actions ==
    [kind : {"LookDown", "LookUp"}, agent_id : AgentIds,
     rotation_degrees : Nums, constraint_degrees : Nums]
    \cup [kind : {"MoveForward"}, agent_id : AgentIds, distance : Nums]
    \cup [kind : {"MoveTangentially"}, agent_id : AgentIds, distance : Nums,
          direction : Vec3s]
    \cup [kind : {"OrientHorizontal"}, agent_id : AgentIds,
          rotation_degrees : Nums, left_distance : Nums,
          forward_distance : Nums]
    \cup [kind : {"OrientVertical"}, agent_id : AgentIds,
          rotation_degrees : Nums, down_distance : Nums,
          forward_distance : Nums]
    \cup [kind : {"SetAgentPitch", "SetSensorPitch"}, agent_id : AgentIds,
          pitch_degrees : Nums]
    \cup [kind : {"SetAgentPose", "SetSensorPose"}, agent_id : AgentIds,
          location : Vec3s, rotation_quat : Quats]
    \cup [kind : {"SetSensorRotation"}, agent_id : AgentIds,
          rotation_quat : Quats]
    \cup [kind : {"SetYaw", "TurnLeft", "TurnRight"}, agent_id : AgentIds,
          rotation_degrees : Nums]
    \cup [kind : {"OtherAction"}, agent_id : AgentIds]

\* basic_types_pb2.VectorXYZ / QuaternionWXYZ built from a sequence, and
\* the tuples the server builds back from them
VectorXYZ(v) == [x |-> v[1], y |-> v[2], z |-> v[3]]
QuaternionWXYZ(q) == [w |-> q[1], x |-> q[2], y |-> q[3], z |-> q[4]]
xyz(m) == <<m.x, m.y, m.z>>
wxyz(m) == <<m.w, m.x, m.y, m.z>>

\* what `return None` hands back, and protocol_pb2.Action() with no member
\* of the oneof set
PyNone == [which |-> "None"]
EmptyAction == [which |-> "unset"]

\* HabitatClient._action_to_proto: the isinstance chain, with the value of
\* its final branch
isinstance_chain(action, otherwise) ==
    CASE action.kind = "LookDown" ->
           [which |-> "look_down", agent_id |-> action.agent_id,
            rotation_degrees |-> action.rotation_degrees,
            constraint_degrees |-> action.constraint_degrees]
      [] action.kind = "LookUp" ->
           [which |-> "look_up", agent_id |-> action.agent_id,
            rotation_degrees |-> action.rotation_degrees,
            constraint_degrees |-> action.constraint_degrees]
      [] action.kind = "MoveForward" ->
           [which |-> "move_forward", agent_id |-> action.agent_id,
            distance |-> action.distance]
      [] action.kind = "MoveTangentially" ->
           [which |-> "move_tangentially", agent_id |-> action.agent_id,
            distance |-> action.distance,
            direction |-> VectorXYZ(action.direction)]
      [] action.kind = "OrientHorizontal" ->
           [which |-> "orient_horizontal", agent_id |-> action.agent_id,
            rotation_degrees |-> action.rotation_degrees,
            left_distance |-> action.left_distance,
            forward_distance |-> action.forward_distance]
      [] action.kind = "OrientVertical" ->
           [which |-> "orient_vertical", agent_id |-> action.agent_id,
            rotation_degrees |-> action.rotation_degrees,
            down_distance |-> action.down_distance,
            forward_distance |-> action.forward_distance]
      [] action.kind = "SetAgentPitch" ->
           [which |-> "set_agent_pitch", agent_id |-> action.agent_id,
            pitch_degrees |-> action.pitch_degrees]
      [] action.kind = "SetAgentPose" ->
           [which |-> "set_agent_pose", agent_id |-> action.agent_id,
            location |-> VectorXYZ(action.location),
            rotation |-> QuaternionWXYZ(action.rotation_quat)]
      [] action.kind = "SetSensorRotation" ->
           [which |-> "set_sensor_rotation", agent_id |-> action.agent_id,
            rotation |-> QuaternionWXYZ(action.rotation_quat)]
      [] action.kind = "SetSensorPitch" ->
           [which |-> "set_sensor_pitch", agent_id |-> action.agent_id,
            pitch_degrees |-> action.pitch_degrees]
      [] action.kind = "SetYaw" ->
           [which |-> "set_yaw", agent_id |-> action.agent_id,
            rotation_degrees |-> action.rotation_degrees]
      [] action.kind = "TurnLeft" ->
           [which |-> "turn_left", agent_id |-> action.agent_id,
            rotation_degrees |-> action.rotation_degrees]
      [] action.kind = "TurnRight" ->
           [which |-> "turn_right", agent_id |-> action.agent_id,
            rotation_degrees |-> action.rotation_degrees]
      [] OTHER -> otherwise

\* ... with `return protocol_pb2.Action()` as the final branch
_action_to_proto_empty(action) == isinstance_chain(action, EmptyAction)

\* ... with `return None` as the final branch, as written
_action_to_proto(action) == isinstance_chain(action, PyNone)

\* pb_action.turn_right: the member if it is the one set, a default
\* TurnRightAction otherwise
turn_right_of(pb_action) ==
    IF pb_action.which = "turn_right"
      THEN pb_action
      ELSE [which |-> "turn_right", agent_id |-> "", rotation_degrees |-> 0]

\* HabitatServer._action_from_proto: the chain on WhichOneof("action")
_action_from_proto(pb_action) ==
    CASE pb_action.which = "look_down" ->
           [kind |-> "LookDown", agent_id |-> pb_action.agent_id,
            rotation_degrees |-> pb_action.rotation_degrees,
            constraint_degrees |-> pb_action.constraint_degrees]
      [] pb_action.which = "look_up" ->
           [kind |-> "LookUp", agent_id |-> pb_action.agent_id,
            rotation_degrees |-> pb_action.rotation_degrees,
            constraint_degrees |-> pb_action.constraint_degrees]
      [] pb_action.which = "move_forward" ->
           [kind |-> "MoveForward", agent_id |-> pb_action.agent_id,
            distance |-> pb_action.distance]
      [] pb_action.which = "move_tangentially" ->
           [kind |-> "MoveTangentially", agent_id |-> pb_action.agent_id,
            distance |-> pb_action.distance,
            direction |-> xyz(pb_action.direction)]
      [] pb_action.which = "orient_horizontal" ->
           [kind |-> "OrientHorizontal", agent_id |-> pb_action.agent_id,
            rotation_degrees |-> pb_action.rotation_degrees,
            left_distance |-> pb_action.left_distance,
            forward_distance |-> pb_action.forward_distance]
      [] pb_action.which = "orient_vertical" ->
           [kind |-> "OrientVertical", agent_id |-> pb_action.agent_id,
            rotation_degrees |-> pb_action.rotation_degrees,
            down_distance |-> pb_action.down_distance,
            forward_distance |-> pb_action.forward_distance]
      [] pb_action.which = "set_agent_pitch" ->
           [kind |-> "SetAgentPitch", agent_id |-> pb_action.agent_id,
            pitch_degrees |-> pb_action.pitch_degrees]
      [] pb_action.which = "set_agent_pose" ->
           [kind |-> "SetAgentPose", agent_id |-> pb_action.agent_id,
            location |-> xyz(pb_action.location),
            rotation_quat |-> wxyz(pb_action.rotation)]
      [] pb_action.which = "set_sensor_pitch" ->
           [kind |-> "SetSensorPitch", agent_id |-> pb_action.agent_id,
            pitch_degrees |-> pb_action.pitch_degrees]
      [] pb_action.which = "set_sensor_pose" ->
           [kind |-> "SetSensorPose", agent_id |-> pb_action.agent_id,
            location |-> xyz(pb_action.location),
            rotation_quat |-> wxyz(pb_action.rotation)]
      [] pb_action.which = "set_sensor_rotation" ->
           [kind |-> "SetSensorRotation", agent_id |-> pb_action.agent_id,
            rotation_quat |-> wxyz(pb_action.rotation)]
      [] pb_action.which = "set_yaw" ->
           [kind |-> "SetYaw", agent_id |-> pb_action.agent_id,
            rotation_degrees |-> pb_action.rotation_degrees]
      [] pb_action.which = "turn_left" ->
           [kind |-> "TurnLeft", agent_id |-> pb_action.agent_id,
            rotation_degrees |-> pb_action.rotation_degrees]
      [] OTHER ->
           [kind |-> "TurnRight",
            agent_id |-> turn_right_of(pb_action).agent_id,
            rotation_degrees |-> turn_right_of(pb_action).rotation_degrees]

\* HabitatIPCEnvironment._action_to_protobuf: the same chain with a
\* SetSensorPose branch, building the StepRequest itself; the TypeError of
\* the final branch is written PyNone and raised by the caller below
_action_to_protobuf(action) ==
    CASE action.kind = "SetSensorPose" ->
           [which |-> "set_sensor_pose", agent_id |-> action.agent_id,
            location |-> VectorXYZ(action.location),
            rotation |-> QuaternionWXYZ(action.rotation_quat)]
      [] action.kind \in ActionKinds \ {"SetSensorPose"} ->
           _action_to_proto(action)
      [] OTHER -> PyNone

\* an exception leaving the call
Raised(type) == [raised |-> TRUE, type |-> type]

\* sequences of 1..n elements of S
SeqsUpTo(S, n) == UNION {[1..k -> S] : k \in 1..n}

\* a Python value that is None or an integer, and an optional scalar field
\* of a message (reading a field that is not set yields 0)
NoneValue == [none |-> TRUE, v |-> 0]
IntValue(n) == [none |-> FALSE, v |-> n]
FieldUnset == [has |-> FALSE, v |-> 0]
FieldSet(n) == [has |-> TRUE, v |-> n]

\* ------------------------------------------------ agent configuration
\* agent_args is a dict: a function from the keys supplied to their values.
\* Sequences stand for lists and tuples alike.
RepeatedKeys == {"resolutions", "positions", "rotations", "semantics", "zooms"}

\* an optional message-typed or string field
Absent(default) == [has |-> FALSE, v |-> default]
Present(value) == [has |-> TRUE, v |-> value]

Resolution(res) == [height |-> res[1], width |-> res[2]]
height_width(m) == <<m.height, m.width>>

\* the element of a repeated field built from an element of agent_args[k]
RepeatedToProto(k, e) ==
    CASE k = "resolutions" -> Resolution(e)
      [] k = "positions" -> VectorXYZ(e)
      [] k = "rotations" -> QuaternionWXYZ(e)
      [] OTHER -> e

RepeatedFromProto(k, m) ==
    CASE k = "resolutions" -> height_width(m)
      [] k = "positions" -> xyz(m)
      [] k = "rotations" -> wxyz(m)
      [] OTHER -> m

\* HabitatClient._agent_cfg_to_proto: the variant is chosen by the presence
\* of sensor_id; height=agent_args.get("height") hands None to the message
\* constructor when the key is missing, which leaves the field unset
_agent_cfg_to_proto(agent_cfg) ==
    LET agent_args == agent_cfg.agent_args
        keys == DOMAIN agent_args
    IN  IF "sensor_id" \in keys
          THEN [which |-> "single_sensor_cfg",
                agent_id |-> agent_args["agent_id"],
                sensor_id |-> agent_args["sensor_id"],
                resolution |->
                    IF "resolution" \in keys
                      THEN Present(Resolution(agent_args["resolution"]))
                      ELSE Absent(Resolution(<<0, 0>>)),
                action_space_type |->
                    IF "action_space_type" \in keys
                      THEN Present(agent_args["action_space_type"])
                      ELSE Absent("")]
          ELSE [which |-> "multi_sensor_cfg",
                agent_id |-> agent_args["agent_id"],
                sensor_ids |-> agent_args["sensor_ids"],
                height |-> IF "height" \in keys
                             THEN FieldSet(agent_args["height"])
                             ELSE FieldUnset,
                position |->
                    IF "position" \in keys
                      THEN Present(VectorXYZ(agent_args["position"]))
                      ELSE Absent(VectorXYZ(<<0, 0, 0>>)),
                repeated |->
                    [k \in RepeatedKeys |->
                        IF k \in keys
                          THEN [i \in 1..Len(agent_args[k]) |->
                                   RepeatedToProto(k, agent_args[k][i])]
                          ELSE <<>>],
                action_space_type |->
                    IF "action_space_type" \in keys
                      THEN Present(agent_args["action_space_type"])
                      ELSE Absent("")]

\* HabitatAgentConfig.MultiSensorConfig(): what reading multi_sensor_cfg
\* yields when that member of the oneof is not set
DefaultMultiSensorConfig ==
    [which |-> "multi_sensor_cfg", agent_id |-> "", sensor_ids |-> <<>>,
     height |-> FieldUnset, position |-> Absent(VectorXYZ(<<0, 0, 0>>)),
     repeated |-> [k \in RepeatedKeys |-> <<>>],
     action_space_type |-> Absent("")]

\* HabitatServer._agent_cfg_from_proto: multi_sensor_cfg, or the default
\* message when another member or none is set
multi_sensor_cfg_of(pb_agent_cfg) ==
    IF pb_agent_cfg.which = "multi_sensor_cfg"
      THEN pb_agent_cfg
      ELSE DefaultMultiSensorConfig

\* ... the two branches on WhichOneof("config"): height is always copied,
\* position and action_space_type under HasField, a repeated field when it
\* is not empty
_agent_cfg_from_proto(pb_agent_cfg) ==
    IF pb_agent_cfg.which = "single_sensor_cfg"
      THEN LET single_cfg == pb_agent_cfg
               keys == {"agent_id", "sensor_id"}
                         \cup (IF single_cfg.resolution.has
                                 THEN {"resolution"} ELSE {})
                         \cup (IF single_cfg.action_space_type.has
                                 THEN {"action_space_type"} ELSE {})
           IN  [agent_type |-> "SingleSensorAgent",
                agent_args |->
                    [k \in keys |->
                        CASE k = "agent_id" -> single_cfg.agent_id
                          [] k = "sensor_id" -> single_cfg.sensor_id
                          [] k = "resolution"
                               -> height_width(single_cfg.resolution.v)
                          [] OTHER -> single_cfg.action_space_type.v]]
      ELSE LET multi_cfg == multi_sensor_cfg_of(pb_agent_cfg)
               keys == {"agent_id", "sensor_ids", "height"}
                         \cup (IF multi_cfg.position.has
                                 THEN {"position"} ELSE {})
                         \cup {k \in RepeatedKeys : multi_cfg.repeated[k] # <<>>}
                         \cup (IF multi_cfg.action_space_type.has
                                 THEN {"action_space_type"} ELSE {})
           IN  [agent_type |-> "MultiSensorAgent",
                agent_args |->
                    [k \in keys |->
                        CASE k = "agent_id" -> multi_cfg.agent_id
                          [] k = "sensor_ids" -> multi_cfg.sensor_ids
                          [] k = "height" -> multi_cfg.height.v
                          [] k = "position" -> xyz(multi_cfg.position.v)
                          [] k \in RepeatedKeys
                               -> [i \in 1..Len(multi_cfg.repeated[k]) |->
                                      RepeatedFromProto(
                                          k, multi_cfg.repeated[k][i])]
                          [] OTHER -> multi_cfg.action_space_type.v]]

\* HabitatAgentConfig messages a peer may send
AgentConfigs ==
    [which : {"single_sensor_cfg"}, agent_id : AgentIds,
     sensor_id : {"sensor_id_0"},
     resolution : {Absent(Resolution(<<0, 0>>))},
     action_space_type : {Absent("")}]
    \cup [which : {"multi_sensor_cfg"}, agent_id : AgentIds,
          sensor_ids : {<<"sensor_id_0">>, <<"sensor_id_0", "sensor_id_1">>},
          height : {FieldUnset, FieldSet(1)},
          position : {Absent(VectorXYZ(<<0, 0, 0>>))},
          repeated : {[k \in RepeatedKeys |-> <<>>]},
          action_space_type : {Absent("")}]
    \cup {[which |-> "unset"]}

\* the value a caller may give for an optional key of agent_args
ValuesOf(k) ==
    CASE k = "height" -> {0, 1}
      [] k = "position" -> {<<0, 1, 2>>}
      [] k = "resolution" -> {<<64, 32>>}
      [] k = "resolutions" -> {<<>>, <<<<64, 32>>>>}
      [] k = "positions" -> {<<<<0, 1, 2>>>>}
      [] k = "rotations" -> {<<<<0, 1, 2, 3>>>>}
      [] k = "semantics" -> {<<TRUE>>}
      [] k = "zooms" -> {<<1>>}
      [] OTHER -> {"distant_agent"}

\* the dicts that extend one of `dicts` with every key of `opt`
RECURSIVE WithKeys(_, _)
WithKeys(dicts, opt) ==
    IF opt = {}
      THEN dicts
      ELSE LET k == CHOOSE k \in opt : TRUE IN
           WithKeys({d @@ (k :> v) : d \in dicts, v \in ValuesOf(k)},
                    opt \ {k})

\* agent configs a caller may hand to HabitatClient.init
SingleSensorConfigs ==
    UNION {WithKeys({("agent_id" :> "agent_id_0")
                       @@ ("sensor_id" :> "sensor_id_0")}, opt)
             : opt \in SUBSET {"resolution", "action_space_type"}}

MultiSensorConfigs ==
    UNION {WithKeys({("agent_id" :> "agent_id_0")
                       @@ ("sensor_ids" :> <<"sensor_id_0">>)}, opt)
             : opt \in SUBSET ({"height", "position", "action_space_type"}
                                 \cup RepeatedKeys)}

\* --------------------------------------------------- codec runs: step
\* HabitatClient.step up to send_request: every action is converted, the
\* StepRequest is built from the list (a None element is refused by the
\* message constructor with TypeError), and only then is the request sent
HabitatClient_step ==
    /\ fn = "step"
    /\ stage = "given"
    /\ LET pb_actions == [i \in 1..Len(arg) |-> _action_to_proto(arg[i])] IN
         IF \E i \in 1..Len(arg) : pb_actions[i].which = "None"
           THEN /\ stage' = "raised"
                /\ ret' = Raised("TypeError")
                /\ pb' = pb
           ELSE /\ stage' = "sent"
                /\ pb' = [actions |-> pb_actions]
                /\ ret' = ret
    /\ UNCHANGED <<fn, arg>>
    /\ UNCHANGED <<bridgeVars, chanVars, wrapVars>>

\* HabitatServer._step up to the engine call: every pb action is decoded
HabitatServer_step ==
    /\ fn \in {"step", "peer_step"}
    /\ stage = "sent"
    /\ ret' = [raised |-> FALSE,
               actions |-> [i \in 1..Len(pb.actions) |->
                               _action_from_proto(pb.actions[i])]]
    /\ stage' = "done"
    /\ UNCHANGED <<fn, arg, pb>>
    /\ UNCHANGED <<bridgeVars, chanVars, wrapVars>>

\* HabitatIPCEnvironment.step up to self._ipc_wrapper.step(step_request)
HabitatIPCEnvironment_step ==
    /\ fn = "ipc_step"
    /\ stage = "given"
    /\ IF Len(arg) # 1
         THEN /\ stage' = "raised"
              /\ ret' = Raised("ValueError")
              /\ pb' = pb
         ELSE IF _action_to_protobuf(arg[1]).which = "None"
                THEN /\ stage' = "raised"
                     /\ ret' = Raised("TypeError")
                     /\ pb' = pb
                ELSE /\ stage' = "sent"
                     /\ pb' = _action_to_protobuf(arg[1])
                     /\ ret' = ret
    /\ UNCHANGED <<fn, arg>>
    /\ UNCHANGED <<bridgeVars, chanVars, wrapVars>>

\* HabitatServer._init up to the agent construction: the agent config of
\* the InitRequest is decoded
HabitatServer_init_agent_cfg ==
    /\ fn \in {"peer_agent_cfg", "agent_cfg"}
    /\ stage = "sent"
    /\ ret' = [raised |-> FALSE, cfg |-> _agent_cfg_from_proto(pb)]
    /\ stage' = "done"
    /\ UNCHANGED <<fn, arg, pb>>
    /\ UNCHANGED <<bridgeVars, chanVars, wrapVars>>

\* HabitatClient.init up to send_request: the agent config is encoded
HabitatClient_init_agent_cfg ==
    /\ fn = "agent_cfg"
    /\ stage = "given"
    /\ pb' = _agent_cfg_to_proto(arg)
    /\ stage' = "sent"
    /\ UNCHANGED <<fn, arg, ret>>
    /\ UNCHANGED <<bridgeVars, chanVars, wrapVars>>

\* ------------------------------------------------ codec runs: the inputs
GivenAgentCfg ==
    /\ fn = "agent_cfg"
    /\ stage = "given"
    /\ arg \in [agent_args : SingleSensorConfigs \cup MultiSensorConfigs]
    /\ pb = "none"

\* a sequence of actions handed to HabitatClient.step
GivenStep ==
    /\ fn = "step"
    /\ stage = "given"
    /\ arg \in {<<>>} \cup SeqsUpTo(Actions, MaxActions)
    /\ pb = "none"

\* ... or to HabitatIPCEnvironment.step
GivenIpcStep ==
    /\ fn = "ipc_step"
    /\ stage = "given"
    /\ arg \in {<<>>} \cup SeqsUpTo(Actions, MaxActions)
    /\ pb = "none"

\* a StepRequest of a peer whose action has no member of the oneof set
PeerStep ==
    /\ fn = "peer_step"
    /\ stage = "sent"
    /\ arg = "none"
    /\ pb \in [actions : SeqsUpTo({EmptyAction}, 1)]

\* an InitRequest of a peer, of which the agent config matters here
PeerAgentCfg ==
    /\ fn = "peer_agent_cfg"
    /\ stage = "sent"
    /\ arg = "none"
    /\ pb \in AgentConfigs

\* -------------------------------------------- codec runs: add_object

SemanticIds == {0, 1}
OptionalSemanticIds == {NoneValue} \cup {IntValue(n) : n \in SemanticIds}

\* `if x is not None: message.field = x`
SetIfNotNone(x) == IF x.none THEN FieldUnset ELSE FieldSet(x.v)

\* `message.field if message.HasField("field") else None`
FieldOrNone(f) == IF f.has THEN IntValue(f.v) ELSE NoneValue

\* `SemanticID(message.field) if message.field else None`
NoneIfFalsy(f) == IF f.v # 0 THEN IntValue(f.v) ELSE NoneValue

\* HabitatClient.add_object up to send_request
HabitatClient_add_object_send ==
    /\ fn = "add_object"
    /\ stage = "given"
    /\ pb' = [semantic_id |-> SetIfNotNone(arg.semantic_id)]
    /\ stage' = "sent"
    /\ UNCHANGED <<fn, arg, ret>>
    /\ UNCHANGED <<bridgeVars, chanVars, wrapVars>>

\* HabitatServer._add_objects: the engine is called with the decoded
\* semantic id and reports an ObjectInfo whose semantic id is its own choice
HabitatServer_add_objects ==
    /\ fn = "add_object"
    /\ stage = "sent"
    /\ \E reported \in OptionalSemanticIds :
         /\ ret' = [raised |-> FALSE,
                    engine_got |-> FieldOrNone(pb.semantic_id),
                    engine_reported |-> reported,
                    returned |-> NoneValue]
         /\ pb' = [semantic_id |-> SetIfNotNone(reported)]
    /\ stage' = "served"
    /\ UNCHANGED <<fn, arg>>
    /\ UNCHANGED <<bridgeVars, chanVars, wrapVars>>

\* HabitatClient.add_object after _receive_response
HabitatClient_add_object_receive ==
    /\ fn = "add_object"
    /\ stage = "served"
    /\ ret' = [ret EXCEPT !.returned = NoneIfFalsy(pb.semantic_id)]
    /\ stage' = "done"
    /\ UNCHANGED <<fn, arg, pb>>
    /\ UNCHANGED <<bridgeVars, chanVars, wrapVars>>

GivenAddObject ==
    /\ fn = "add_object"
    /\ stage = "given"
    /\ arg \in [semantic_id : OptionalSemanticIds]
    /\ pb = "none"

\* ---------------------------------------------- codec runs: observations
\* numpy arrays: element type, shape, and the buffer, of which the codec
\* looks at the length only
DTypes == {"uint8", "float32", "float64"}

itemsize(dtype) ==
    CASE dtype = "uint8" -> 1
      [] dtype = "float32" -> 4
      [] dtype = "float64" -> 8

RECURSIVE prod(_)
prod(shape) == IF shape = <<>> THEN 1 ELSE Head(shape) * prod(Tail(shape))

Fills == {"a", "b"}

\* an array of the given type and shape whose elements follow the pattern
NdArray(dtype, shape, fill) ==
    [dtype |-> dtype, shape |-> shape,
     buf |-> [len |-> prod(shape) * itemsize(dtype), fill |-> fill]]

\* ndarray.tobytes()
tobytes(a) == a.buf

\* np.frombuffer(buffer, dtype): ValueError unless the buffer is a whole
\* number of elements; a one-dimensional array otherwise
frombuffer(buffer, dtype) ==
    IF buffer.len % itemsize(dtype) # 0
      THEN Raised("ValueError")
      ELSE [raised |-> FALSE, dtype |-> dtype,
            shape |-> <<buffer.len \div itemsize(dtype)>>, buf |-> buffer]

\* ndarray.reshape(shape): ValueError unless the element count is kept
reshape(a, shape) ==
    IF a.raised
      THEN a
      ELSE IF prod(shape) # prod(a.shape)
             THEN Raised("ValueError")
             ELSE [a EXCEPT !.shape = shape]

Modalities ==
    {"raw", "rgba", "depth", "semantic", "semantic_3d", "sensor_frame_data",
     "world_camera", "pixel_loc"}

\* HabitatServer._observations_to_proto, _serialize_numpy_array
_serialize_numpy_array(np_array) ==
    [data |-> tobytes(np_array), dtype |-> np_array.dtype,
     shape |-> np_array.shape]

\* ... the branch of one modality: raw is stored as bare bytes
sensor_obs_to_proto(modality, data) ==
    IF modality = "raw"
      THEN [data |-> tobytes(data), dtype |-> "", shape |-> <<>>]
      ELSE _serialize_numpy_array(data)

_observations_to_proto(observations) ==
    [agent_id |-> observations.agent_id,
     sensor_id |-> observations.sensor_id,
     sensor_obs |-> [m \in DOMAIN observations.sensor_obs |->
                       sensor_obs_to_proto(m, observations.sensor_obs[m])]]

\* HabitatClient._observations_from_proto, deserialize_numpy_array with the
\* shape test left out: the array is reshaped whatever shape the message has
deserialize_numpy_array_always_reshapes(pb_array) ==
    reshape(frombuffer(pb_array.data, pb_array.dtype), pb_array.shape)

\* ... as written: `data.reshape(shape).copy() if shape else data.copy()`
deserialize_numpy_array(pb_array) ==
    IF pb_array.shape # <<>>
      THEN reshape(frombuffer(pb_array.data, pb_array.dtype), pb_array.shape)
      ELSE frombuffer(pb_array.data, pb_array.dtype)

\* ... the branch of one modality: raw is np.frombuffer(raw), float64
sensor_obs_from_proto(modality, pb_field) ==
    IF modality = "raw"
      THEN frombuffer(pb_field.data, "float64")
      ELSE deserialize_numpy_array(pb_field)

\* an array as the caller holds it
Plain(a) == [dtype |-> a.dtype, shape |-> a.shape, buf |-> a.buf]

_observations_from_proto(pb_observations) ==
    LET decoded == [m \in DOMAIN pb_observations.sensor_obs |->
                      sensor_obs_from_proto(m, pb_observations.sensor_obs[m])]
    IN  IF \E m \in DOMAIN decoded : decoded[m].raised
          THEN Raised("ValueError")
          ELSE [raised |-> FALSE,
                obs |-> [agent_id |-> pb_observations.agent_id,
                         sensor_id |-> pb_observations.sensor_id,
                         sensor_obs |-> [m \in DOMAIN decoded |->
                                           Plain(decoded[m])]]]

\* HabitatServer._step/_reset after the engine call: the observations are
\* encoded into the response
HabitatServer_observations_to_proto ==
    /\ fn = "observations"
    /\ stage = "given"
    /\ pb' = _observations_to_proto(arg)
    /\ stage' = "sent"
    /\ UNCHANGED <<fn, arg, ret>>
    /\ UNCHANGED <<bridgeVars, chanVars, wrapVars>>

\* HabitatClient.step/reset after _receive_response
HabitatClient_observations_from_proto ==
    /\ fn \in {"observations", "peer_observations"}
    /\ stage = "sent"
    /\ ret' = _observations_from_proto(pb)
    /\ stage' = "done"
    /\ UNCHANGED <<fn, arg, pb>>
    /\ UNCHANGED <<bridgeVars, chanVars, wrapVars>>

Shapes == {<<2>>, <<2, 2>>, <<1, 2, 4>>}

NdArrays == {NdArray(d, s, f) : d \in DTypes, s \in Shapes, f \in Fills}

\* the observations of one sensor: one modality, or color and depth
ModalitySets == {{m} : m \in Modalities} \cup {{"rgba", "depth"}}

GivenObservations ==
    /\ fn = "observations"
    /\ stage = "given"
    /\ arg \in [agent_id : AgentIds, sensor_id : {"sensor_id_0"},
                sensor_obs : UNION {[ms -> NdArrays] : ms \in ModalitySets}]
    /\ pb = "none"

\* NumpyArray messages of a peer: any type, any shape or none, and a buffer
\* of any of these lengths
BufferLengths == {0, 1, 4, 8, 16}

PeerObservations ==
    /\ fn = "peer_observations"
    /\ stage = "sent"
    /\ arg = "none"
    /\ pb \in [agent_id : AgentIds, sensor_id : {"sensor_id_0"},
               sensor_obs : [{"rgba"} ->
                               [data : [len : BufferLengths, fill : {"a"}],
                                dtype : DTypes,
                                shape : Shapes \cup {<<>>}]]]

\* --------------------------- codec runs: observations on the queue bridge
\* ipc_wrapper.serialize_obs_and_state: every modality is stored as the
\* bare bytes of the array
serialize_obs_and_state(observations) ==
    [agent_id |-> observations.agent_id,
     sensor_id |-> observations.sensor_id,
     sensor_obs |-> [m \in DOMAIN observations.sensor_obs |->
                       tobytes(observations.sensor_obs[m])]]

\* ipc_environment.deserialize_obs_and_state, one modality: rgba and depth
\* are reshaped to the resolution written in the code, the other modalities
\* are np.frombuffer(bytes)
deserialize_modality(modality, bytes) ==
    CASE modality = "rgba" ->
           reshape(frombuffer(bytes, "uint8"), <<64, 64, 4>>)
      [] modality = "depth" ->
           reshape(frombuffer(bytes, "float32"), <<64, 64>>)
      [] OTHER -> frombuffer(bytes, "float64")

deserialize_obs_and_state(pb_observations) ==
    LET decoded == [m \in DOMAIN pb_observations.sensor_obs |->
                      deserialize_modality(m, pb_observations.sensor_obs[m])]
    IN  IF \E m \in DOMAIN decoded : decoded[m].raised
          THEN Raised("ValueError")
          ELSE [raised |-> FALSE,
                obs |-> [agent_id |-> pb_observations.agent_id,
                         sensor_id |-> pb_observations.sensor_id,
                         sensor_obs |-> [m \in DOMAIN decoded |->
                                           Plain(decoded[m])]]]

\* habitat_sim_process, "step"/"reset": the observations are serialized
habitat_sim_process_serialize ==
    /\ fn = "ipc_observations"
    /\ stage = "given"
    /\ pb' = serialize_obs_and_state(arg)
    /\ stage' = "sent"
    /\ UNCHANGED <<fn, arg, ret>>
    /\ UNCHANGED <<bridgeVars, chanVars, wrapVars>>

\* HabitatIPCEnvironment.step/reset: the response is deserialized
HabitatIPCEnvironment_deserialize ==
    /\ fn = "ipc_observations"
    /\ stage = "sent"
    /\ ret' = deserialize_obs_and_state(pb)
    /\ stage' = "done"
    /\ UNCHANGED <<fn, arg, pb>>
    /\ UNCHANGED <<bridgeVars, chanVars, wrapVars>>

\* sensor resolutions (height, width) an agent may be configured with
Resolutions == {<<64, 64>>, <<32, 32>>, <<128, 32>>}

\* what the engine renders at a resolution: color and depth
Rendered(resolution, fill) ==
    [rgba |-> NdArray("uint8", resolution \o <<4>>, fill),
     depth |-> NdArray("float32", resolution, fill)]

GivenIpcObservations ==
    /\ fn = "ipc_observations"
    /\ stage = "given"
    /\ \E r \in Resolutions, f \in Fills :
         arg = [agent_id |-> "agent_id_0", sensor_id |-> "sensor_id_0",
                resolution |-> r, sensor_obs |-> Rendered(r, f)]
    /\ pb = "none"

\* ------------------------------------------------- codec: specification
\* ------------------------------------------- codec runs: proprioception
StateAgentIds == {"agent_id_0", "agent_id_1"}
StateSensorIds == {"sensor_id_0"}

\* the engine's SensorState and AgentState; motor_only_step is an
\* attribute the engine may or may not have set
SensorStates == [position : Vec3s, rotation : Quats]
MotorOnlyStep == {"absent", "True", "False"}
AgentStates ==
    UNION {[position : Vec3s, rotation : {<<0, 1, 2, 3>>},
            sensors : [ss -> SensorStates], motor_only_step : MotorOnlyStep]
               : ss \in SUBSET StateSensorIds}

\* HabitatServer._state_to_proto: agent_id, position, rotation and the
\* sensor states of every agent; agent_states is built in dict order
\* from distinct keys
_state_to_proto(state) ==
    {[agent_id |-> a,
      position |-> VectorXYZ(state[a].position),
      rotation |-> QuaternionWXYZ(state[a].rotation),
      sensor_states |->
          {[sensor_id |-> sn,
            position |-> VectorXYZ(state[a].sensors[sn].position),
            rotation |-> QuaternionWXYZ(state[a].sensors[sn].rotation)]
              : sn \in DOMAIN state[a].sensors}]
        : a \in DOMAIN state}

\* HabitatClient._state_from_proto: AgentState(sensors, position, rotation)
_state_from_proto(pb_state) ==
    [a \in {m.agent_id : m \in pb_state} |->
        LET m == CHOOSE m \in pb_state : m.agent_id = a IN
        [position |-> xyz(m.position),
         rotation |-> wxyz(m.rotation),
         sensors |->
             [sn \in {p.sensor_id : p \in m.sensor_states} |->
                 LET p == CHOOSE p \in m.sensor_states : p.sensor_id = sn IN
                 [position |-> xyz(p.position),
                  rotation |-> wxyz(p.rotation)]],
         motor_only_step |-> "absent"]]

\* HabitatServer._step/_reset: pb_state = self._state_to_proto(state)
HabitatServer_state_to_proto ==
    /\ fn = "state"
    /\ stage = "given"
    /\ pb' = _state_to_proto(arg)
    /\ stage' = "sent"
    /\ UNCHANGED <<fn, arg, ret>>
    /\ UNCHANGED <<bridgeVars, chanVars, wrapVars>>

\* HabitatClient.step/reset: self._state_from_proto(response.proprioceptive_state)
HabitatClient_state_from_proto ==
    /\ fn = "state"
    /\ stage = "sent"
    /\ ret' = _state_from_proto(pb)
    /\ stage' = "done"
    /\ UNCHANGED <<fn, arg, pb>>
    /\ UNCHANGED <<bridgeVars, chanVars, wrapVars>>

GivenState ==
    /\ fn = "state"
    /\ stage = "given"
    /\ arg \in UNION {[as -> AgentStates] : as \in SUBSET StateAgentIds}
    /\ pb = "none"

\* ------------------------------------------- runs of the two entry points
\* the parameters of the transport constructors besides self; none of
\* them has a default
Parameters(cls) ==
    CASE cls = "ZmqTransport" -> {"channel_name"}
      [] cls = "ShmRpcTransport" -> {"name"}
      [] cls = "QueueBasedTransport" -> {}

\* Python binds a call made with keyword arguments only: an unexpected
\* keyword or a missing parameter without default raises TypeError
CallBinds(keywords, cls) ==
    /\ keywords \subseteq Parameters(cls)
    /\ Parameters(cls) \subseteq keywords

Ports == {5555, 5556}
Hosts == {"127.0.0.1", "0.0.0.0"}
Seeds == {42, 7}

\* launch.main(): ZmqTransport(port=args.port, host=args.host), then
\* HabitatServer(transport).start(), which calls transport.start() and
\* enters the loop at receive_request
launch_main ==
    /\ fn = "launch"
    /\ stage = "given"
    /\ IF CallBinds({"port", "host"}, "ZmqTransport")
         THEN /\ stage' = "serving"
              /\ ret' = [raised |-> FALSE,
                         order |-> <<"transport.start", "receive_request">>]
         ELSE /\ stage' = "raised"
              /\ ret' = Raised("TypeError")
    /\ UNCHANGED <<fn, arg, pb>>
    /\ UNCHANGED <<bridgeVars, chanVars, wrapVars>>

\* HabitatEnvironment.__init__: ShmRpcTransport(), HabitatServer(transport),
\* the server process is started, sleep, HabitatClient(transport) connects,
\* init is sent
HabitatEnvironment___init__ ==
    /\ fn = "environment"
    /\ stage = "given"
    /\ IF CallBinds({}, "ShmRpcTransport")
         THEN /\ stage' = "ready"
              /\ ret' = [raised |-> FALSE,
                         order |-> <<"Process.start", "connect", "init">>]
         ELSE /\ stage' = "raised"
              /\ ret' = Raised("TypeError")
    /\ UNCHANGED <<fn, arg, pb>>
    /\ UNCHANGED <<bridgeVars, chanVars, wrapVars>>

GivenLaunch ==
    /\ fn = "launch"
    /\ stage = "given"
    /\ arg \in [port : Ports, host : Hosts]
    /\ pb = "none"

GivenEnvironment ==
    /\ fn = "environment"
    /\ stage = "given"
    /\ arg \in [seed : Seeds, agents : SUBSET AgentIds]
    /\ pb = "none"

InitCodec ==
    /\ InitBridge
    /\ backend = "zmq"
    /\ ChannelsIdle
    /\ WrapperIdle
    /\ ret = "none"
    /\ \/ GivenStep
       \/ GivenIpcStep
       \/ PeerStep
       \/ PeerAgentCfg
       \/ GivenAddObject
       \/ GivenObservations
       \/ PeerObservations
       \/ GivenIpcObservations
       \/ GivenState
       \/ GivenAgentCfg
       \/ GivenLaunch
       \/ GivenEnvironment

NextCodec ==
    \/ HabitatClient_step
    \/ HabitatServer_step
    \/ HabitatIPCEnvironment_step
    \/ HabitatServer_init_agent_cfg
    \/ HabitatClient_add_object_send
    \/ HabitatServer_add_objects
    \/ HabitatClient_add_object_receive
    \/ HabitatServer_observations_to_proto
    \/ HabitatClient_observations_from_proto
    \/ habitat_sim_process_serialize
    \/ HabitatIPCEnvironment_deserialize
    \/ HabitatClient_init_agent_cfg
    \/ HabitatServer_state_to_proto
    \/ HabitatClient_state_from_proto
    \/ launch_main
    \/ HabitatEnvironment___init__

SpecCodec == InitCodec /\ [][NextCodec]_vars

\* C14: for each of the fourteen action kinds, _action_to_proto followed by
\* _action_from_proto yields an action of the same kind with every field
\* equal: a step() call whose actions are all of these kinds ends with the
\* server holding the very sequence the caller passed.
C14_ActionRoundTrip ==
    (/\ fn = "step"
     /\ stage \in {"raised", "done"}
     /\ \A i \in 1..Len(arg) : arg[i].kind \in ActionKinds)
        => (stage = "done" /\ ret.actions = arg)

\* C15: step() with a sequence that references an unsupported action kind
\* raises before anything is sent: the run never reaches send_request.
C15_UnsupportedNeverSent ==
    (/\ fn \in {"step", "ipc_step"}
     /\ \E i \in 1..Len(arg) : arg[i].kind \notin ActionKinds)
        => stage \in {"given", "raised"}

\* a supported action followed by an unsupported one has raised
C15_Witness ==
    /\ fn = "step"
    /\ stage = "raised"
    /\ Len(arg) = 2
    /\ arg[1].kind = "TurnLeft"
    /\ arg[2].kind = "OtherAction"
    /\ ret = Raised("TypeError")

\* C16: decoding a message whose discriminant is not set is an error, never
\* a default value: for the action oneof and the agent-config oneof.
C16_UnsetDiscriminantRaises ==
    /\ (/\ fn = "peer_step"
        /\ stage = "done"
        /\ \E i \in 1..Len(pb.actions) : pb.actions[i].which = "unset")
          => ret.raised
    /\ (/\ fn = "peer_agent_cfg"
        /\ stage = "done"
        /\ pb.which = "unset")
          => ret.raised

\* C17: the semantic id add_object returns is None exactly when the engine
\* reported none and is the reported number otherwise (0 included), and the
\* engine is called with the semantic id the caller passed (0 as 0, None as
\* None).
C17_SemanticIdPresence ==
    (fn = "add_object" /\ stage = "done")
        => /\ ret.returned = ret.engine_reported
           /\ ret.engine_got = arg.semantic_id

\* C18: _observations_to_proto followed by _observations_from_proto gives
\* back, under the same agent and sensor ids, every tensor with its element
\* type, shape and bytes, in every modality.
C18_TensorRoundTrip ==
    (fn = "observations" /\ stage = "done")
        => /\ ~ret.raised
           /\ ret.obs = arg

\* C19: a tensor message whose byte length differs from the product of its
\* shape times the element size is rejected by the decoder.
C19_LengthMismatchRejected ==
    (/\ fn = "peer_observations"
     /\ stage = "done"
     /\ \E m \in DOMAIN pb.sensor_obs :
          pb.sensor_obs[m].data.len #
              prod(pb.sensor_obs[m].shape) * itemsize(pb.sensor_obs[m].dtype))
        => ret.raised

\* C20: at any configured resolution H x W the rgba and depth tensors
\* decoded from a Step or Reset response have shapes (H, W, 4) and (H, W).
C20_ShapeFromMessage ==
    (fn = "ipc_observations" /\ stage = "done")
        => /\ ~ret.raised
           /\ ret.obs.sensor_obs["rgba"].shape = arg.resolution \o <<4>>
           /\ ret.obs.sensor_obs["depth"].shape = arg.resolution

\* C21: step() with an empty action sequence is permitted: the call does
\* not raise on the calling side, one Step request is sent, and the engine
\* is stepped with zero actions.
C21_EmptyStepPermitted ==
    (/\ fn \in {"step", "ipc_step"}
     /\ Len(arg) = 0
     /\ stage # "given")
        => /\ stage \in {"sent", "done"}
           /\ stage = "done" => ret.actions = <<>>

(***************************************************************************)
(* The queue bridge: habitat/ipc_wrapper.py and habitat/ipc_environment.py *)
(*                                                                         *)
(* HabitatIPCWrapper owns two multiprocessing queues and a subprocess that *)
(* runs habitat_sim_process.  Every wrapper operation puts one item        *)
(* (op_type, bytes) on request_queue and blocks in response_queue.get().   *)
(* The subprocess takes one item, runs the handler and puts the answer.    *)
(* Its handling of one item is one step: nothing else runs in that         *)
(* process between request_queue.get() and the end of the loop body.       *)
(* Time is abstracted: a join with a timeout may return at any moment.     *)
(***************************************************************************)
MaxWrapCalls == 4

WrapOps == {"remove_all_objects", "add_object", "step", "reset"}
\* operation types habitat_sim_process has no branch for
UnknownOps == {"init"}
\* texts of the exceptions the engine raises inside a handler
EngineMessages == {"engine failed", "unknown object"}

\* response.SerializeToString(): bytes of the response message of op_type
SerializedResponse(op_type) == [type |-> "bytes", of |-> op_type]
\* str(e): the text of the exception, a str and not bytes
ErrorText(msg) == [type |-> "str", text |-> msg]

\* multiprocessing.Process.is_alive()
is_alive == p_pc # "dead"

InitWrapper ==
    /\ InitBridge
    /\ backend = "queue"
    /\ ChannelsIdle
    /\ CodecIdle
    /\ request_queue = <<>>
    /\ response_queue = <<>>
    /\ p_pc = "new"
    /\ signal = "none"
    /\ w_pc = "idle"
    /\ _ipc_wrapper = "set"
    /\ wLast = NoWrapperCall
    /\ closeLog = <<>>
    /\ taken = 0
    /\ answered = 0
    /\ wCalls = 0

\* habitat_sim_process before the loop: HabitatSim(...) is constructed
\* outside the try; if it raises the process ends without a word.
SubprocessStart ==
    /\ p_pc = "new"
    /\ p_pc' \in {"get", "dead"}
    /\ UNCHANGED <<request_queue, response_queue, signal, w_pc, _ipc_wrapper,
                   wLast, closeLog, taken, answered, wCalls>>
    /\ UNCHANGED <<bridgeVars, chanVars, codecVars>>

\* one pass of the loop body for an operation that has a branch: the
\* handler returns and the response is put, or it raises and the
\* except clause puts ("error", str(e)).
SubprocessHandle ==
    /\ p_pc = "get"
    /\ request_queue # <<>>
    /\ Head(request_queue) \in WrapOps
    /\ request_queue' = Tail(request_queue)
    /\ taken' = taken + 1
    /\ \/ response_queue' =
              Append(response_queue,
                     <<Head(request_queue),
                       SerializedResponse(Head(request_queue))>>)
       \/ \E msg \in EngineMessages :
              response_queue' =
                  Append(response_queue, <<"error", ErrorText(msg)>>)
    /\ answered' = answered + 1
    /\ UNCHANGED <<p_pc, signal, w_pc, _ipc_wrapper, wLast, closeLog, wCalls>>
    /\ UNCHANGED <<bridgeVars, chanVars, codecVars>>

\* the close branch: habitat_sim.close(), the response, break; if
\* habitat_sim.close() raises, the except clause answers and the loop
\* goes on.
SubprocessClose ==
    /\ p_pc = "get"
    /\ request_queue # <<>>
    /\ Head(request_queue) = "close"
    /\ request_queue' = Tail(request_queue)
    /\ taken' = taken + 1
    /\ \/ /\ response_queue' =
                Append(response_queue, <<"close", SerializedResponse("close")>>)
          /\ p_pc' = "exiting"
       \/ /\ \E msg \in EngineMessages :
                response_queue' =
                    Append(response_queue, <<"error", ErrorText(msg)>>)
          /\ p_pc' = "get"
    /\ answered' = answered + 1
    /\ UNCHANGED <<signal, w_pc, _ipc_wrapper, wLast, closeLog, wCalls>>
    /\ UNCHANGED <<bridgeVars, chanVars, codecVars>>

\* the else branch: the unknown type is logged, nothing is put
SubprocessUnknown ==
    /\ p_pc = "get"
    /\ request_queue # <<>>
    /\ Head(request_queue) \notin WrapOps \cup {"close"}
    /\ request_queue' = Tail(request_queue)
    /\ taken' = taken + 1
    /\ UNCHANGED <<response_queue, answered, p_pc, signal, w_pc, _ipc_wrapper,
                   wLast, closeLog, wCalls>>
    /\ UNCHANGED <<bridgeVars, chanVars, codecVars>>

\* the process function returned after break: the process ends
SubprocessExit ==
    /\ p_pc = "exiting"
    /\ p_pc' = "dead"
    /\ UNCHANGED <<request_queue, response_queue, signal, w_pc, _ipc_wrapper,
                   wLast, closeLog, taken, answered, wCalls>>
    /\ UNCHANGED <<bridgeVars, chanVars, codecVars>>

\* SIGTERM or SIGKILL sent by close() ends the process
SignalDelivered ==
    /\ signal \in {"term", "kill"}
    /\ is_alive
    /\ p_pc' = "dead"
    /\ UNCHANGED <<request_queue, response_queue, signal, w_pc, _ipc_wrapper,
                   wLast, closeLog, taken, answered, wCalls>>
    /\ UNCHANGED <<bridgeVars, chanVars, codecVars>>

\* HabitatIPCEnvironment calling a wrapper operation: after close() the
\* attribute is None and the call raises AttributeError; otherwise the
\* request is put and the caller blocks in response_queue.get().
WrapperCall(op) ==
    /\ w_pc = "idle"
    /\ wCalls < MaxWrapCalls
    /\ wCalls' = wCalls + 1
    /\ IF _ipc_wrapper = "None"
       THEN /\ wLast' = [op |-> op, status |-> "raised",
                         msg |-> "AttributeError", got |-> "none"]
            /\ UNCHANGED <<request_queue, w_pc>>
       ELSE /\ request_queue' = Append(request_queue, op)
            /\ w_pc' = "wait"
            /\ wLast' = [op |-> op, status |-> "pending", msg |-> "",
                         got |-> "none"]
    /\ UNCHANGED <<response_queue, p_pc, signal, _ipc_wrapper, closeLog,
                   taken, answered>>
    /\ UNCHANGED <<bridgeVars, chanVars, codecVars>>

\* message.ParseFromString(data): a str is not a bytes-like object
ParseFromString(data) ==
    IF data.type = "bytes"
    THEN [status |-> "ok", msg |-> data.of]
    ELSE [status |-> "raised", msg |-> "TypeError"]

\* the second half of a wrapper operation: op_type is unpacked and not
\* looked at, the payload is parsed as the response of the operation.
WrapperReceive ==
    /\ w_pc = "wait"
    /\ response_queue # <<>>
    /\ response_queue' = Tail(response_queue)
    /\ wLast' = [op |-> wLast.op, got |-> Head(response_queue)[1]]
                     @@ ParseFromString(Head(response_queue)[2])
    /\ w_pc' = "idle"
    /\ UNCHANGED <<request_queue, p_pc, signal, _ipc_wrapper, closeLog,
                   taken, answered, wCalls>>
    /\ UNCHANGED <<bridgeVars, chanVars, codecVars>>

\* an item of a type without a branch, put on the request queue by code
\* holding the queue; no wrapper method waits for its answer
RawRequest(op) ==
    /\ w_pc = "idle"
    /\ _ipc_wrapper = "set"
    /\ wCalls < MaxWrapCalls
    /\ wCalls' = wCalls + 1
    /\ request_queue' = Append(request_queue, op)
    /\ UNCHANGED <<response_queue, p_pc, signal, w_pc, _ipc_wrapper, wLast,
                   closeLog, taken, answered>>
    /\ UNCHANGED <<bridgeVars, chanVars, codecVars>>

\* one step of HabitatIPCWrapper.close() as the history records it
CloseStep(step) == [step |-> step, alive |-> is_alive]

\* HabitatIPCEnvironment.close() after wrapper.close() returned
_ipc_wrapper_kept == "set"

_ipc_wrapper_after_close == "None"

\* HabitatIPCWrapper.close() returns to HabitatIPCEnvironment.close(),
\* which clears the attribute.
CloseReturns ==
    /\ w_pc' = "idle"
    /\ _ipc_wrapper' = _ipc_wrapper_after_close
    /\ wLast' = [op |-> "close", status |-> "returned", msg |-> "",
                 got |-> "none"]

\* HabitatIPCEnvironment.close(): nothing to do without a wrapper,
\* otherwise HabitatIPCWrapper.close() puts the close request.
EnvClose ==
    /\ w_pc = "idle"
    /\ wCalls < MaxWrapCalls
    /\ wCalls' = wCalls + 1
    /\ IF _ipc_wrapper = "None"
       THEN /\ wLast' = [op |-> "close", status |-> "returned",
                         msg |-> "no wrapper", got |-> "none"]
            /\ UNCHANGED <<request_queue, w_pc, closeLog>>
       ELSE /\ request_queue' = Append(request_queue, "close")
            /\ closeLog' = Append(closeLog, CloseStep("put"))
            /\ w_pc' = "close_wait"
            /\ wLast' = [op |-> "close", status |-> "pending", msg |-> "",
                         got |-> "none"]
    /\ UNCHANGED <<response_queue, p_pc, signal, _ipc_wrapper, taken,
                   answered>>
    /\ UNCHANGED <<bridgeVars, chanVars, codecVars>>

\* close(): response_queue.get() returns; the item is not looked at
CloseAck ==
    /\ w_pc = "close_wait"
    /\ response_queue # <<>>
    /\ response_queue' = Tail(response_queue)
    /\ closeLog' = Append(closeLog, CloseStep("ack"))
    /\ w_pc' = "join5"
    /\ UNCHANGED <<request_queue, p_pc, signal, _ipc_wrapper, wLast, taken,
                   answered, wCalls>>
    /\ UNCHANGED <<bridgeVars, chanVars, codecVars>>

\* what close() does after join(timeout=2) when is_alive() is `alive`
after_join2_returns(alive) == "return"

after_join2(alive) == IF alive THEN "kill" ELSE "return"

\* close(): join(timeout=5) returned, by the end of the process or by
\* the timeout; terminate() if the process is alive.
CloseJoin5 ==
    /\ w_pc = "join5"
    /\ IF is_alive
       THEN /\ closeLog' = closeLog \o
                               <<CloseStep("join5"), CloseStep("terminate")>>
            /\ signal' = "term"
            /\ w_pc' = "join2"
            /\ UNCHANGED <<_ipc_wrapper, wLast>>
       ELSE /\ closeLog' = Append(closeLog, CloseStep("join5"))
            /\ CloseReturns
            /\ UNCHANGED signal
    /\ UNCHANGED <<request_queue, response_queue, p_pc, taken, answered,
                   wCalls>>
    /\ UNCHANGED <<bridgeVars, chanVars, codecVars>>

\* close(): join(timeout=2) returned; kill() if the process is alive
CloseJoin2 ==
    /\ w_pc = "join2"
    /\ IF after_join2(is_alive) = "kill"
       THEN /\ closeLog' = closeLog \o
                               <<CloseStep("join2"), CloseStep("kill")>>
            /\ signal' = "kill"
            /\ w_pc' = "join"
            /\ UNCHANGED <<_ipc_wrapper, wLast>>
       ELSE /\ closeLog' = Append(closeLog, CloseStep("join2"))
            /\ CloseReturns
            /\ UNCHANGED signal
    /\ UNCHANGED <<request_queue, response_queue, p_pc, taken, answered,
                   wCalls>>
    /\ UNCHANGED <<bridgeVars, chanVars, codecVars>>

\* close(): join() without a timeout returns when the process has ended
CloseJoin ==
    /\ w_pc = "join"
    /\ ~is_alive
    /\ closeLog' = Append(closeLog, CloseStep("join"))
    /\ CloseReturns
    /\ UNCHANGED <<request_queue, response_queue, p_pc, signal, taken,
                   answered, wCalls>>
    /\ UNCHANGED <<bridgeVars, chanVars, codecVars>>

NextWrapper ==
    \/ SubprocessStart
    \/ SubprocessHandle
    \/ SubprocessClose
    \/ SubprocessUnknown
    \/ SubprocessExit
    \/ SignalDelivered
    \/ \E op \in WrapOps : WrapperCall(op)
    \/ \E op \in UnknownOps : RawRequest(op)
    \/ WrapperReceive
    \/ EnvClose
    \/ CloseAck
    \/ CloseJoin5
    \/ CloseJoin2
    \/ CloseJoin

SpecWrapper == InitWrapper /\ [][NextWrapper]_vars

\* the steps of close() in the order of the code
CloseOrder == <<"put", "ack", "join5", "terminate", "join2", "kill", "join">>

\* C22: HabitatIPCWrapper.close() sends the close request, awaits the
\* acknowledgement, joins with a grace period, terminates only if the
\* process is still alive, joins again, kills only if it is still alive
\* and then joins; whenever close() has returned the subprocess is not
\* alive.
C22_CloseEscalation ==
    /\ Len(closeLog) <= Len(CloseOrder)
    /\ \A i \in 1..Len(closeLog) :
           /\ closeLog[i].step = CloseOrder[i]
           /\ closeLog[i].step \in {"terminate", "kill"} => closeLog[i].alive
    /\ (wLast.op = "close" /\ wLast.status = "returned") => ~is_alive

\* close() returned after the kill stage
C22_Witness ==
    /\ wLast.op = "close"
    /\ wLast.status = "returned"
    /\ Len(closeLog) = Len(CloseOrder)

\* C27: HabitatIPCEnvironment.close() is idempotent: the first call puts
\* one close request and leaves the subprocess ended, every later call
\* puts nothing and does not raise.
C27_CloseIdempotent ==
    /\ Cardinality({i \in 1..Len(closeLog) : closeLog[i].step = "put"}) <= 1
    /\ wLast.op = "close" => wLast.status # "raised"
    /\ (wLast.op = "close" /\ wLast.msg = "no wrapper")
           => /\ wLast.status = "returned"
              /\ ~is_alive
              /\ "close" \notin {request_queue[i] : i \in 1..Len(request_queue)}

\* a second close() returned after the first one shut the subprocess down
C27_Witness ==
    /\ wLast.op = "close"
    /\ wLast.msg = "no wrapper"
    /\ wLast.status = "returned"
    /\ closeLog # <<>>

\* C28: an error raised by the engine in a handler reaches the caller of
\* the wrapper operation as an error carrying the engine's message, never
\* as a normal response and never as an unrelated decoding error.
C28_EngineErrorReRaised ==
    wLast.got = "error"
        => /\ wLast.status = "raised"
           /\ wLast.msg \in EngineMessages

\* C29: every item habitat_sim_process has taken from the request queue
\* has been answered with exactly one item on the response queue before
\* the next one is taken.
C29_OneResponsePerItem ==
    answered = taken

\* C23: the standalone launcher, given a valid host and port, constructs
\* the transport, and HabitatServer.start() opens it before the dispatch
\* loop: every launch ends waiting in receive_request.
C23_LauncherReachesReceive ==
    (fn = "launch" /\ stage # "given")
        => /\ stage = "serving"
           /\ ret.order = <<"transport.start", "receive_request">>

\* C24: HabitatEnvironment.__init__ starts the server process before the
\* client connects, sends Init first, and construction completes with the
\* dispatcher Ready.
C24_SessionStartUp ==
    (fn = "environment" /\ stage # "given")
        => /\ stage = "ready"
           /\ ret.order = <<"Process.start", "connect", "init">>

\* C25: the response HabitatServer sends mirrors the request it answers
\* (init_request -> init_resp, add_object_req -> add_object_resp,
\* remove_all_objects_req -> remove_all_objects_resp, step_req -> step_resp,
\* reset_req -> reset_resp, close_req -> close_resp) or is the error variant.
C25_ResponseMirrorsRequest ==
    LET Mirror == [k \in CallKinds |->
                     CASE k = "init_request" -> "init_resp"
                       [] k = "add_object_req" -> "add_object_resp"
                       [] k = "remove_all_objects_req"
                              -> "remove_all_objects_resp"
                       [] k = "step_req" -> "step_resp"
                       [] k = "reset_req" -> "reset_resp"
                       [] k = "close_req" -> "close_resp"
                       [] OTHER -> "error_resp"]
        Allowed(kind) == IF kind \in CallKinds
                           THEN {Mirror[kind], "error_resp"}
                           ELSE {"error_resp"}
    IN  /\ s_pc = "send"
           => /\ response_msg.kind \in Allowed(srvLast.kind)
              /\ response_msg.re = srvLast.id
        /\ \A i \in 1..Len(respQ) :
               \/ respQ[i].kind = "error_resp"
               \/ \E k \in CallKinds : respQ[i].kind = Mirror[k]

\* a mirrored reset or close response is about to be sent after an init
C25_Witness ==
    /\ s_pc = "send"
    /\ srvLast.kind \in {"reset_req", "close_req"}
    /\ response_msg.kind \in {"reset_resp", "close_resp"}
    /\ srvPrev.kind = "init_request"

\* C30: the response a HabitatClient operation returns (or raises as the
\* server's error) is the response to the request that operation sent.
C30_ResponseAnswersOwnRequest ==
    cliLast.status \in {"ok", "error"} => cliLast.re = cliLast.id

\* C26: while the caller has not read the first response, a second request
\* is never outstanding: the second send_request blocks or is refused.
C26_OneRequestOutstanding ==
    c_pc = "wait" => InFlight <= 1

\* ------------------------------------------------ a caller that pipelines
\* Code holding the client transport calls send_request again before
\* receive_response.  QueueBasedTransport.send_request is a put on a queue
\* without a size limit; the shared-memory channel takes the message when
\* its request slot is free; the REQ socket refuses the send.
\* a channel with room for one request: the second put replaces the first
SecondSend_overwrites(k) ==
    /\ c_pc = "wait"
    /\ opCount < MaxOps
    /\ IsOpen(c_transport)
    /\ backend # "zmq"
    /\ ~SendBlocked(reqQ)
    /\ reqQ' = <<Frame(k, FALSE)>>
    /\ opCount' = opCount + 1
    /\ UNCHANGED <<chanVars, codecVars, wrapVars>>
    /\ UNCHANGED <<backend, respQ, reqState, c_pc, c_transport, attempt,
                   cliLast>>
    /\ UNCHANGED trVars
    /\ UNCHANGED srvVars

SecondSend(k) ==
    /\ c_pc = "wait"
    /\ opCount < MaxOps
    /\ IsOpen(c_transport)
    /\ backend # "zmq"
    /\ ~SendBlocked(reqQ)
    /\ reqQ' = Append(reqQ, Frame(k, FALSE))
    /\ opCount' = opCount + 1
    /\ UNCHANGED <<chanVars, codecVars, wrapVars>>
    /\ UNCHANGED <<backend, respQ, reqState, c_pc, c_transport, attempt,
                   cliLast>>
    /\ UNCHANGED trVars
    /\ UNCHANGED srvVars

\* the second send_request raises: the REQ socket is waiting for a reply,
\* or the request slot stayed full until the timeout
SecondSendRaises(k) ==
    /\ c_pc = "wait"
    /\ opCount < MaxOps
    /\ IsOpen(c_transport)
    /\ \/ backend = "zmq"
       \/ SendBlocked(reqQ)
    /\ opCount' = opCount + 1
    /\ UNCHANGED <<chanVars, codecVars, wrapVars>>
    /\ UNCHANGED <<backend, reqQ, respQ, reqState, c_pc, c_transport,
                   attempt, cliLast>>
    /\ UNCHANGED trVars
    /\ UNCHANGED srvVars

NextPipelined ==
    \/ ServerStart
    \/ ServerDispatch
    \/ ServerSend
    \/ ZmqConnectReturns
    \/ ShmConnectReturns
    \/ QueueConnectReturns
    \/ \E k \in ReqKinds : ClientSend(k, FALSE)
    \/ ClientReceive
    \/ \E k \in ReqKinds : SecondSend(k)
    \/ \E k \in ReqKinds : SecondSendRaises(k)

SpecPipelined == Init /\ [][NextPipelined]_vars

\* C31: the ProprioceptiveState the client returns has exactly the agent
\* and sensor ids of the engine's state and reproduces every position,
\* every rotation and the motor-only-step flag the engine set.
C31_StateRoundTrip ==
    (fn = "state" /\ stage = "done") => ret = arg

\* C32: _agent_cfg_to_proto followed by _agent_cfg_from_proto yields the
\* same variant (single-sensor when agent_args has sensor_id, multi-sensor
\* otherwise) and an agent_args with exactly the keys and values supplied.
C32_AgentCfgRoundTrip ==
    (fn = "agent_cfg" /\ stage = "done")
        => /\ ret.cfg.agent_type =
                  (IF "sensor_id" \in DOMAIN arg.agent_args
                     THEN "SingleSensorAgent" ELSE "MultiSensorAgent")
           /\ DOMAIN ret.cfg.agent_args = DOMAIN arg.agent_args
           /\ \A k \in DOMAIN arg.agent_args :
                  ret.cfg.agent_args[k] = arg.agent_args[k]

\* C33: HabitatServer.start() calls transport.start() exactly once, before
\* the first receive_request: the statement is left only into the loop with
\* the transport open and nothing received yet, and the loop never goes
\* back to it, whatever requests and errors occur.
C33_TransportStartedOnce ==
    [][/\ s_pc # "init" => s_pc' # "init"
       /\ (s_pc = "init" /\ s_pc' # "init")
              => /\ s_pc' = "recv"
                 /\ IsOpen("srv")'
                 /\ srvLast.kind = "none" /\ srvLast.id = 0
                 /\ UNCHANGED <<srvLast, srvPrev, reqQ, respQ>>]_vars

\* the loop has answered an error and a further request after the start
C33_Witness ==
    /\ s_pc = "recv"
    /\ IsOpen("srv")
    /\ srvPrev.raised
    /\ srvLast.id > srvPrev.id
    /\ srvPrev.id > 0

\* C34: an Init request answered with an Error response leaves the
\* dispatcher Uninitialized (no engine), so that a Step, Reset or AddObject
\* that follows is answered with an Error response.
C34_FailedInitLeavesUninitialized ==
    /\ (/\ s_pc = "send"
        /\ srvLast.kind = "init_request"
        /\ srvLast.raised
        /\ srvLast.sim = "None")
           => _habitat_sim = "None"
    /\ (/\ srvPrev.kind = "init_request"
        /\ srvPrev.raised
        /\ srvPrev.sim = "None"
        /\ srvLast.kind \in {"step_req", "reset_req", "add_object_req"})
           => srvLast.raised

\* C35: at most one live engine per server: when an Init request creates
\* an engine, the engine the server held before, if any, has been closed.
C35_OneLiveEngine ==
    (srvLast.kind = "init_request" /\ ~srvLast.raised)
        => srvLast.sim # "Live"

\* ------------------------------------ ZmqTransport used while not open
TransportMethods ==
    {"send_request", "receive_request", "send_response", "receive_response"}

\* the four methods without their `if self.socket is None` test:
\* self.socket.send / self.socket.recv on None
socket_is_None_unchecked(sock) ==
    IF sock = "None" THEN Raised("AttributeError") ELSE [raised |-> FALSE]

\* `if self.socket is None: raise RuntimeError(msg)`
socket_is_None(sock) ==
    IF sock = "None" THEN Raised("RuntimeError") ELSE [raised |-> FALSE]

\* one of the four methods called on a ZmqTransport whose socket is None:
\* never started or connected, or closed.  The calls on an open socket are
\* the send and receive actions of the bridge.
ZmqCallNotOpen(o, method) ==
    /\ backend = "zmq"
    /\ socket[o] = "None"
    /\ fn' = method
    /\ arg' = o
    /\ stage' = "raised"
    /\ ret' = socket_is_None(socket[o])
    /\ UNCHANGED pb
    /\ UNCHANGED <<bridgeVars, chanVars, wrapVars>>

InitZmqCalls == Init /\ backend = "zmq"

NextZmqCalls ==
    \/ ServerStart
    \/ ZmqConnectReturns
    \/ ZmqConnectRaises
    \/ \E o \in Objs : CloseTransport(o)
    \/ \E o \in Objs, method \in TransportMethods : ZmqCallNotOpen(o, method)

SpecZmqCalls == InitZmqCalls /\ [][NextZmqCalls]_vars

\* C36: send_request, receive_request, send_response and receive_response
\* called on a ZmqTransport whose socket is None raise RuntimeError and
\* transmit or consume nothing; after close() socket and context are None.
C36_NotOpenFailsCleanly ==
    [][/\ (fn' \in TransportMethods /\ <<fn, arg, ret>>' # <<fn, arg, ret>>)
              => /\ socket[arg'] = "None"
                 /\ ret' = Raised("RuntimeError")
                 /\ UNCHANGED <<reqQ, respQ, socket, context>>
       /\ \A o \in Objs :
              closeCalls'[o] # closeCalls[o]
                  => socket'[o] = "None" /\ context'[o] = "None"]_vars

\* receive_request was called on the server's transport after start() and
\* close(), while the client's transport is open
C36_Witness ==
    /\ fn = "receive_request"
    /\ arg = "srv"
    /\ ret = Raised("RuntimeError")
    /\ s_pc = "recv"
    /\ closeCalls["srv"] = 1
    /\ socket["cli"] = "Open"

\* C37: with QueueBasedTransport nothing sent is lost and order is kept:
\* before the server has started every request sent is on the queue; the
\* responses not yet read, the request being answered and the requests not
\* yet received are, in this order, the requests n+1 .. opCount for some n;
\* and the server receives the requests one after the other.
C37_QueueKeepsOrder ==
    backend = "queue" =>
        LET pending ==
              [i \in 1..Len(respQ) |-> respQ[i].re]
                \o (IF s_pc = "send" THEN <<response_msg.re>> ELSE <<>>)
                \o [i \in 1..Len(reqQ) |-> reqQ[i].id]
        IN  /\ \A i \in 1..Len(pending) :
                   pending[i] = opCount - Len(pending) + i
            /\ s_pc = "init" => Len(reqQ) = opCount
            /\ srvLast.id > 0 => srvLast.id = srvPrev.id + 1
            /\ cliLast.status \in {"ok", "error"}
                   => cliLast.re = opCount - Len(pending)

\* three requests were sent without reading: the server has received the
\* first two in order, one response and one request are queued
C37_Witness ==
    /\ backend = "queue"
    /\ srvPrev.id = 1
    /\ srvLast.id = 2
    /\ s_pc = "send"
    /\ Len(respQ) = 1
    /\ Len(reqQ) = 1

\* ---------------------------------------------------------------------
\* termination of HabitatIPCWrapper.close()
\* ---------------------------------------------------------------------

\* the queue bridge with both processes scheduled: the subprocess runs
\* whenever it can take a step, a delivered signal ends it, and a
\* blocking call of the wrapper returns once what it waits for is there.
\* Which calls the environment makes is left open.
FairWrapper ==
    /\ WF_vars(SubprocessStart)
    /\ WF_vars(SubprocessHandle)
    /\ WF_vars(SubprocessClose)
    /\ WF_vars(SubprocessUnknown)
    /\ WF_vars(SubprocessExit)
    /\ WF_vars(SignalDelivered)
    /\ WF_vars(WrapperReceive)
    /\ WF_vars(CloseAck)
    /\ WF_vars(CloseJoin5)
    /\ WF_vars(CloseJoin2)
    /\ WF_vars(CloseJoin)

SpecWrapperFair == InitWrapper /\ [][NextWrapper]_vars /\ FairWrapper

\* C38: HabitatIPCWrapper.close() always terminates: once it has put the
\* close request it returns, with the subprocess ended, also when the
\* subprocess ended in the engine constructor before its loop or never
\* puts an acknowledgement on the response queue.
C38_CloseTerminates ==
    (w_pc = "close_wait")
        ~> (w_pc = "idle" /\ wLast.op = "close"
              /\ wLast.status = "returned" /\ ~is_alive)

\* ---------------------------------------------------------------------
\* connect() and the object it is called on
\* ---------------------------------------------------------------------

\* connect() returns to HabitatClient.__init__
ConnectReturned == c_pc \in {"new", "connecting"} /\ c_pc' = "idle"

\* C39: on the socket and shared-memory backends connect() opens the
\* channel on a newly created transport object and returns it, and the
\* socket, context and shared-memory handle of every object that existed
\* before (the one it was called on, None if never started, and the one
\* the server started) stay as they were; QueueBasedTransport.connect()
\* changes no transport object and returns the object it was called on,
\* whose queues are the ones the server takes requests from.
C39_ConnectLeavesReceiver ==
    [][ConnectReturned =>
          IF backend = "queue"
          THEN /\ c_transport' = "orig"
               /\ UNCHANGED trVars
          ELSE /\ c_transport' = "cli"
               /\ c_transport' # "orig"
               /\ IF backend = "zmq"
                  THEN socket'["cli"] = "Open" /\ context'["cli"] = "Open"
                  ELSE shm_transport'["cli"] = "Open"
               /\ \A o \in Objs \ {"cli"} :
                      /\ socket'[o] = socket[o]
                      /\ context'[o] = context[o]
                      /\ shm_transport'[o] = shm_transport[o]
               /\ socket'["orig"] = "None"
               /\ context'["orig"] = "None"
               /\ shm_transport'["orig"] = "None"]_vars

\* connect() has returned on the socket backend next to a started server,
\* before any call: the new object is open, the receiver has no socket
C39_Witness ==
    /\ backend = "zmq"
    /\ c_pc = "idle"
    /\ opCount = 0
    /\ c_transport = "cli"
    /\ socket["cli"] = "Open"
    /\ socket["srv"] = "Open"
    /\ socket["orig"] = "None"
    /\ context["orig"] = "None"

====
